---- MODULE Spec2Model ----
(***************************************************************************)
(* A model of the session orchestration of the counter / voting dApp:      *)
(*   - connectToWallet and connect's error classification                  *)
(*     (counter-dapp/src/components/MidnightWallet.tsx),                   *)
(*   - the CLI menus deployOrJoin and mainLoop (the CLI entry module),      *)
(*   - the ledger and circuits of contract/src/zkvote.compact.             *)
(*   - the provider component MidnightWalletProvider and its handlers,     *)
(*   - run() of the CLI entry module with its teardown.                    *)
(* The specifications share one Init; each leaves the variables of the     *)
(* others unchanged.                                                       *)
(***************************************************************************)
EXTENDS Integers, Sequences, FiniteSets, TLC

VARIABLES
  \* ---- connectToWallet / connect (MidnightWallet.tsx) ----
  pc,               \* stage of the handshake
  now,              \* ms since the pipeline was (re)subscribed
  ticks,            \* emissions of interval(100) in this subscription
  connectorAPI,     \* the value of window.midnight?.mnLace that passed filter
  subscriptions,    \* how many times the pipeline was subscribed
  stages,           \* stages completed in this subscription, in order
  calls,            \* how often each stage ran during this connectToWallet
  cause,            \* the stage whose failure ended the handshake
  rejection,        \* the error connectToWallet rejected with
  errorType,        \* getErrorType(error) in connect's catch
  \* ---- ledger of zkvote.compact ----
  round, votesA, votesB, items,
  pre,              \* the ledger before the last circuit call
  lastCall,         \* the last circuit call and its outcome
  voters,           \* the wallets whose vote_for was accepted
  \* ---- CLI (deployOrJoin / mainLoop) ----
  cli,              \* position of mainLoop
  answers,          \* answers read by rli.question in the operate-loop
  invoked,          \* api operations invoked by the operate-loop, in order
  logger,           \* lines written to the logger by the last prompt
  invalidCount,     \* 'Invalid choice' lines written by the operate-loop
  thrown,           \* the value the last operation threw, or NoError
  \* ---- MidnightWalletProvider (MidnightWallet.tsx) ----
  isConnected, isConnecting, isLoading,   \* useState flags
  proofServerIsOnline,
  walletAPI, providers,                   \* TRUE when set, FALSE when undefined
  address,                                \* wallet address, "" when undefined
  contractAddress,                        \* "" when undefined
  deployedContract,                       \* the contract handle, or NoContract
  count,                                  \* the displayed counter
  localStorage,                           \* contract_state_<address> -> item
  viteAddress,                            \* import.meta.env.VITE_CONTRACT_ADDRESS
  inFlight,           \* the callTx awaiting its block, or NoFlight
  handshake,          \* how connectToWallet of the current connect ended
  privateStateSet,    \* privateStateProvider.set was called on this bundle
  handleHistory,      \* how the handle was made and what was called on it
  lastOp,             \* the last handler run and what it observed
  \* ---- walletProvider of the provider bundle (MidnightWallet.tsx) ----
  txCalls,            \* per transaction: how far its balanceTx call is
  submittedTxs,       \* the transactions handed to wallet.submitTransaction
  lastWalletCall,     \* the last call made on the wallet
  \* ---- run() of the CLI ----
  runPc,              \* position of run()
  runConfig,          \* whether a dockerEnv was given, and the config class
  acquired,           \* resources acquired, in order
  attempted,          \* teardown steps attempted, in order
  teardownErrors,     \* teardown steps that threw (each is logged)
  teardownAt,         \* the next step of the teardown cascade
  pending,            \* the value run()'s catch rethrew, or NoError
  outcome,            \* "running", "resolved" or "rejected"
  ending,             \* what ended run()'s work
  endpoints,          \* config.indexer, indexerWS, node, proofServer
  rewrites,           \* how often run() assigned the endpoints
  configRead,         \* the endpoints buildWallet / configureProviders saw
  \* ---- endpoint resolution (mapContainerPort, getConfig) ----
  viteEnv,            \* import.meta.env.VITE_*
  resolved,           \* the last resolution and its result
  \* ---- contract handles on one address (callTx) ----
  shared,             \* the localStorage the handles read and write
  waiting,            \* per handle: the callTx waiting for its block
  lastTx,             \* the last callTx that completed
  txHistory           \* the callTx calls made so far

hsVars     == <<pc, now, ticks, connectorAPI, subscriptions, stages, calls,
                cause, rejection, errorType>>
ledgerVars == <<round, votesA, votesB, items>>
callVars   == <<pre, lastCall, voters>>
cliVars    == <<cli, answers, invoked, logger, invalidCount, thrown>>
sessionVars  == <<isConnected, walletAPI, providers, address, proofServerIsOnline>>
contractVars == <<contractAddress, deployedContract>>
providerVars == <<sessionVars, contractVars, isConnecting, isLoading, count,
                  localStorage, viteAddress, inFlight, handshake,
                  privateStateSet, handleHistory, lastOp>>
txVars     == <<txCalls, submittedTxs, lastWalletCall>>
runVars    == <<runPc, runConfig, acquired, attempted, teardownErrors,
                teardownAt, pending, outcome, ending, endpoints, rewrites,
                configRead>>
configVars == <<viteEnv, resolved>>
handleVars == <<shared, waiting, lastTx, txHistory>>
restVars   == <<providerVars, txVars, runVars, configVars, handleVars>>
vars       == <<hsVars, ledgerVars, callVars, cliVars, restVars>>

(***************************************************************************)
(* Bounds of the model.                                                    *)
(***************************************************************************)
MaxSubscriptions == 2   \* subscriptions of the pipeline explored per run
MaxRound == 4           \* cap on the round counter
MaxInputs == 3          \* answers given to the operate-loop
MaxCount == 1           \* increments called on one contract handle
MaxTx == 2              \* transactions given to the wallet provider
MaxCalls == 3           \* callTx calls made on the handles of one address

(***************************************************************************)
(* Strings: String.prototype.includes.                                     *)
(***************************************************************************)
Includes(s, p) ==
  \E i \in 1..(Len(s) - Len(p) + 1) : SubSeq(s, i, i + Len(p) - 1) = p

(***************************************************************************)
(* Thrown values.  A promise may reject with an Error, with a falsy value   *)
(* (undefined) or with a truthy value that is no Error (a string).         *)
(***************************************************************************)
Err(m)    == [isError |-> TRUE, truthy |-> TRUE, message |-> m]
Undefined == [isError |-> FALSE, truthy |-> FALSE, message |-> ""]
NoError   == [isError |-> FALSE, truthy |-> FALSE, message |-> "<none>"]
StringValue(m) == [isError |-> FALSE, truthy |-> TRUE, message |-> m]

(***************************************************************************)
(* semver.satisfies(version, "1.x"): the version must be a valid           *)
(* MAJOR.MINOR.PATCH, without a prerelease tag, whose major equals the      *)
(* range's.                                                                *)
(***************************************************************************)
DigitChars == "0123456789"
IsDigit(ch) == \E d \in 1..10 : SubSeq(DigitChars, d, d) = ch
DigitVal(ch) == (CHOOSE d \in 1..10 : SubSeq(DigitChars, d, d) = ch) - 1

RECURSIVE ToNat(_)
ToNat(s) ==
  IF Len(s) = 0 THEN 0
  ELSE 10 * ToNat(SubSeq(s, 1, Len(s) - 1)) + DigitVal(SubSeq(s, Len(s), Len(s)))

IsNumeric(s) ==
  /\ Len(s) > 0
  /\ \A i \in 1..Len(s) : IsDigit(SubSeq(s, i, i))
  /\ (Len(s) > 1 => SubSeq(s, 1, 1) # "0")

\* index of the first occurrence of ch in s, or Len(s) + 1
IndexOf(s, ch) ==
  IF \E i \in 1..Len(s) : SubSeq(s, i, i) = ch
  THEN CHOOSE i \in 1..Len(s) :
         /\ SubSeq(s, i, i) = ch
         /\ \A j \in 1..(i - 1) : SubSeq(s, j, j) # ch
  ELSE Len(s) + 1

RECURSIVE SplitDots(_)
SplitDots(s) ==
  LET i == IndexOf(s, ".")
  IN IF i > Len(s) THEN <<s>>
     ELSE <<SubSeq(s, 1, i - 1)>> \o SplitDots(SubSeq(s, i + 1, Len(s)))

SemverCore(v) == SubSeq(v, 1, IndexOf(v, "-") - 1)
SemverHasPrerelease(v) == IndexOf(v, "-") <= Len(v)
SemverValid(v) ==
  LET parts == SplitDots(SemverCore(v))
  IN /\ Len(parts) = 3
     /\ \A i \in 1..3 : IsNumeric(parts[i])
SemverMajor(v) == ToNat(SplitDots(SemverCore(v))[1])

COMPATIBLE_CONNECTOR_API_VERSION == "1.x"

SemverSatisfiesLoose(version, range) ==
  /\ SemverValid(version)
  /\ SemverMajor(version) >= ToNat(SplitDots(range)[1])

SemverSatisfies(version, range) ==
  /\ SemverValid(version)
  /\ ~SemverHasPrerelease(version)
  /\ SemverMajor(version) = ToNat(SplitDots(range)[1])

(***************************************************************************)
(* The connector the extension injects as window.midnight.mnLace.          *)
(***************************************************************************)
ApiVersions == {"1.0.0", "1.12.3", "2.0.0", "0.9.1", "1.0.0-rc.1", "latest"}
NoConnector == [apiVersion |-> "<absent>"]
Connectors == [apiVersion : ApiVersions]

(***************************************************************************)
(* Timing of the pipeline, in ms.                                          *)
(***************************************************************************)
PollInterval == 100
DiscoveryTimeout == 1000
ResponseTimeout == 5000
\* how long the wallet takes to answer isEnabled()
Delays == {100, 4000}

(***************************************************************************)
(* Messages of the errors the pipeline constructs.                         *)
(***************************************************************************)
IncompatibleVersionMessage(actual) ==
  "Incompatible version of Midnight Lace wallet found. Require '"
    \o COMPATIBLE_CONNECTOR_API_VERSION \o "', got '" \o actual \o "'."
NotFoundMessage == "Could not find Midnight Lace wallet. Extension installed?"
NoResponseMessage == "Midnight Lace wallet has failed to respond. Extension enabled?"
NotAuthorizedMessage == "Application is not authorized"

\* what the wallet may reject isEnabled(), enable() or serviceUriConfig() with
WalletRejections ==
  {Err("User rejected the request"), Undefined, StringValue("denied")}

(***************************************************************************)
(* getErrorType: the first marker found in error.message decides.          *)
(***************************************************************************)
getErrorType(error) ==
  IF Includes(error.message, "Could not find Midnight Lace wallet")
    THEN "WALLET_NOT_FOUND"
  ELSE IF Includes(error.message, "Incompatible version of Midnight Lace wallet")
    THEN "INCOMPATIBLE_API_VERSION"
  ELSE IF Includes(error.message, "Wallet connector API has failed to respond")
    THEN "TIMEOUT_API_RESPONSE"
  ELSE IF Includes(error.message, "Could not find wallet connector API")
    THEN "TIMEOUT_FINDING_API"
  ELSE IF Includes(error.message, "Unable to enable connector API")
    THEN "ENABLE_API_FAILED"
  ELSE IF Includes(error.message, "Application is not authorized")
    THEN "UNAUTHORIZED"
  ELSE "UNKNOWN_ERROR"

\* connect's catch: getErrorType(error as Error).  A rejection value without
\* a message makes error.message.includes throw a TypeError inside the catch.
ConnectCatch(error) ==
  IF error.isError THEN getErrorType(error) ELSE "TypeError"

(***************************************************************************)
(* Ledger state of zkvote.compact and its circuits.                        *)
(***************************************************************************)
\* persistent_hash over the vector [pad(3, "pk:"), instance, sk]: modelled
\* as a collision-free function of the vector
public_key_vote(sk, instance) == <<"pk:", instance, sk>>

Ledger == [round |-> round, votesA |-> votesA, votesB |-> votesB, items |-> items]

\* the ledger of a contract that was just deployed
FreshLedger == [round |-> 0, votesA |-> 0, votesB |-> 0, items |-> {}]

\* the constants of vote_for
secret_key == "123"
instance == "000"

\* the argument of vote_for is a Uint<8>; these values are explored
Indexes == {0, 1, 2, 255}
\* the wallets that submit circuit calls
Wallets == {"wallet1", "wallet2"}

\* circuit increment(): round.increment(1)
increment(L) ==
  [ok |-> TRUE, error |-> "", ledger |-> [L EXCEPT !.round = @ + 1]]

\* vote_for without its assert
vote_for_unchecked(L, index) ==
  LET voted == [L EXCEPT !.items = @ \cup {public_key_vote(secret_key, instance)}]
  IN [ok |-> TRUE, error |-> "",
      ledger |-> IF index = 0 THEN [voted EXCEPT !.votesA = @ + 1]
                 ELSE IF index = 1 THEN [voted EXCEPT !.votesB = @ + 1]
                 ELSE voted]

\* circuit vote_for(index): a failed assert aborts the transaction, so the
\* ledger keeps the state it had before the call
vote_for_second_marker(L, index) ==
  IF public_key_vote(secret_key, instance) \in L.items
  THEN [ok |-> FALSE, error |-> "Already voted", ledger |-> L]
  ELSE LET voted == [L EXCEPT !.items = @ \cup {public_key_vote(secret_key, instance)}]
       IN [ok |-> TRUE, error |-> "",
           ledger |->
             IF index = 0
             THEN [voted EXCEPT !.items = @ \cup {public_key_vote(instance, secret_key)},
                                !.votesA = @ + 1]
             ELSE IF index = 1
             THEN [voted EXCEPT !.items = @ \cup {public_key_vote(instance, secret_key)},
                                !.votesB = @ + 1]
             ELSE voted]
vote_for(L, index) ==
  IF public_key_vote(secret_key, instance) \in L.items
  THEN [ok |-> FALSE, error |-> "Already voted", ledger |-> L]
  ELSE LET voted == [L EXCEPT !.items = @ \cup {public_key_vote(secret_key, instance)}]
       IN [ok |-> TRUE, error |-> "",
           ledger |->
             IF index = 0
             THEN [voted EXCEPT !.items = @ \cup {public_key_vote(secret_key, instance)},
                                !.votesA = @ + 1]
             ELSE IF index = 1
             THEN [voted EXCEPT !.items = @ \cup {public_key_vote(secret_key, instance)},
                                !.votesB = @ + 1]
             ELSE voted]

\* circuit get_vote_count(index)
get_vote_count(L, index) ==
  IF index = 0 THEN L.votesA ELSE IF index = 1 THEN L.votesB ELSE 0

(***************************************************************************)
(* MidnightWalletProvider: the values its handlers compute with.           *)
(***************************************************************************)
\* addresses deployCounterContract can generate: contract_<Date.now()>_<random>
Addresses == {"contract_1", "contract_2"}

\* what a user can type into the join field
JoinInputs == Addresses \cup {"  ", " contract_1 "}

\* String.prototype.trim for the blanks of JoinInputs
RECURSIVE TrimStart(_)
TrimStart(str) ==
  IF Len(str) > 0 /\ SubSeq(str, 1, 1) = " "
    THEN TrimStart(SubSeq(str, 2, Len(str)))
    ELSE str

RECURSIVE TrimEnd(_)
TrimEnd(str) ==
  IF Len(str) > 0 /\ SubSeq(str, Len(str), Len(str)) = " "
    THEN TrimEnd(SubSeq(str, 1, Len(str) - 1))
    ELSE str

Trim(str) == TrimEnd(TrimStart(str))

\* A JSON value as the handlers look at it: whether it is truthy, whether it
\* has a truthy data member, the members of data, and data.round.
NullDoc == [truthy |-> FALSE, hasData |-> FALSE, fields |-> {}, round |-> 0]
NotFoundDoc == [truthy |-> TRUE, hasData |-> FALSE, fields |-> {}, round |-> 0]
StateDoc(n) == [truthy |-> TRUE, hasData |-> TRUE, fields |-> {"round"}, round |-> n]

\* Number to decimal digits, as JSON.stringify writes it
RECURSIVE NatToString(_)
NatToString(n) ==
  IF n < 10 THEN SubSeq(DigitChars, n + 1, n + 1)
  ELSE NatToString(n \div 10) \o SubSeq(DigitChars, (n % 10) + 1, (n % 10) + 1)

StatePrefix == "{\"data\":{\"round\":"
StateSuffix == "}}"

\* JSON.stringify({ data: { round: n } })
JSONStringify(n) == StatePrefix \o NatToString(n) \o StateSuffix

\* JSON.parse of an item of localStorage; the items are written by
\* JSONStringify only, anything else would make JSON.parse throw
JSONParse(item) ==
  LET digits == SubSeq(item, Len(StatePrefix) + 1, Len(item) - Len(StateSuffix))
  IN IF /\ Len(item) > Len(StatePrefix) + Len(StateSuffix)
        /\ SubSeq(item, 1, Len(StatePrefix)) = StatePrefix
        /\ IsNumeric(digits)
       THEN StateDoc(ToNat(digits))
       ELSE NullDoc

\* localStorage.getItem gives null for a missing key: the empty item
NoItem == ""
EmptyStorage == [a \in Addresses |-> NoItem]

\* fetch(indexerUri/contract/<address>/state).then(r => r.json()): the
\* promise rejects (network error, body that is not JSON) or resolves with
\* the JSON value of the body.  The contracts of this component live in
\* localStorage only, so an indexer that answers has no state for them.
FetchRejects == [ok |-> FALSE, doc |-> NullDoc]
FetchResolves(doc) == [ok |-> TRUE, doc |-> doc]
IndexerResponses == {FetchRejects, FetchResolves(NullDoc), FetchResolves(NotFoundDoc)}

\* publicDataProvider.queryContractState
queryContractState(response, storage, contract) ==
  IF response.ok THEN response.doc
  ELSE IF storage[contract] # NoItem THEN JSONParse(storage[contract])
  ELSE NullDoc

\* currentState?.data?.round || 0
RoundOrZero(doc) ==
  IF doc.truthy /\ doc.hasData /\ "round" \in doc.fields THEN doc.round ELSE 0

\* privateStateProvider.get answers { privateCounter: 0 } for every key and
\* privateStateProvider.set stores nothing
PrivateState(n) == [truthy |-> TRUE, privateCounter |-> n]
PrivateStateGetMissing(key) == [truthy |-> FALSE, privateCounter |-> 0]
PrivateStateGet(key) == PrivateState(0)

\* contract handles
NoContract == [address |-> "", txId |-> "none"]
HandleFixed(contract, txId) == [address |-> "contract_1", txId |-> txId]
Handle(contract, txId) == [address |-> contract, txId |-> txId]

\* localStorage.setItem throws when the storage refuses the item
StorageError == Err("QuotaExceededError")

\* deployCounterContract: the initial state goes to localStorage, then the
\* handle is returned
deployCounterContractPartial(storage, contract, stored) ==
  [ok |-> stored, error |-> IF stored THEN NoError ELSE StorageError,
   storage |-> [storage EXCEPT ![contract] = JSONStringify(0)],
   handle |-> IF stored THEN Handle(contract, "deploy") ELSE NoContract]
deployCounterContract(storage, contract, stored) ==
  IF stored
    THEN [ok |-> TRUE, error |-> NoError,
          storage |-> [storage EXCEPT ![contract] = JSONStringify(0)],
          handle  |-> Handle(contract, "deploy")]
    ELSE [ok |-> FALSE, error |-> StorageError,
          storage |-> storage, handle |-> NoContract]

ContractNotFound(contract) == Err("Contract not found at address: " \o contract)

\* joinExistingContract: the query decides; private state is initialised
\* when get answers nothing
joinExistingContract(response, storage, contract) ==
  LET contractState == queryContractState(response, storage, contract)
      existingPrivateState == PrivateStateGet("counterPrivateState")
  IN IF ~contractState.truthy
       THEN [ok |-> FALSE, error |-> ContractNotFound(contract),
             handle |-> NoContract, doc |-> contractState, set |-> FALSE]
       ELSE [ok |-> TRUE, error |-> NoError,
             handle |-> Handle(contract, "joined_contract"),
             doc |-> contractState, set |-> ~existingPrivateState.truthy]

\* callTx.increment and callTx.decrement of a handle: the round they read
\* and the round they will write after the block time
incrementTx(response, storage, contract) ==
  RoundOrZero(queryContractState(response, storage, contract)) + 1

decrementTx(response, storage, contract) ==
  LET currentValue == RoundOrZero(queryContractState(response, storage, contract))
  IN IF currentValue >= 1 THEN currentValue - 1 ELSE 0

\* connect's choice of contract: the configured one if it can be joined,
\* a newly deployed one otherwise
ConnectContractKeepsConfigured(envAddress, joined, deployed) ==
  IF envAddress # "" /\ joined.ok
    THEN [ok |-> TRUE, error |-> NoError, address |-> envAddress,
          handle |-> joined.handle, deployedNew |-> FALSE]
    ELSE [ok |-> deployed.ok, error |-> deployed.error,
          address |-> IF envAddress # "" THEN envAddress
                      ELSE deployed.handle.address,
          handle |-> deployed.handle, deployedNew |-> TRUE]
ConnectContract(envAddress, joined, deployed) ==
  IF envAddress # "" /\ joined.ok
    THEN [ok |-> TRUE, error |-> NoError, address |-> envAddress,
          handle |-> joined.handle, deployedNew |-> FALSE]
    ELSE [ok |-> deployed.ok, error |-> deployed.error,
          address |-> deployed.handle.address,
          handle |-> deployed.handle, deployedNew |-> TRUE]

\* loadCount as seen from a render: [queried, doc, count]
loadCount(connected, bundle, contract, response, storage, shown) ==
  IF ~connected \/ ~bundle \/ contract = ""
    THEN [queried |-> FALSE, doc |-> NullDoc, count |-> shown]
  ELSE LET contractState == queryContractState(response, storage, contract)
       IN [queried |-> TRUE, doc |-> contractState,
           count |-> IF contractState.truthy /\ contractState.hasData
                       THEN contractState.round ELSE 0]

\* initializeProviders: wallet.state() first; its failure is logged and
\* rethrown, no bundle is returned
initializeProvidersSwallow(walletState) == [ok |-> TRUE, error |-> NoError]
initializeProviders(walletState) ==
  IF walletState.ok THEN [ok |-> TRUE, error |-> NoError]
  ELSE [ok |-> FALSE, error |-> walletState.error]

NoHistory == [via |-> "none", increments |-> 0, others |-> FALSE]
NoFlight == [op |-> "none", handle |-> NoContract, address |-> "",
             newValue |-> 0, stale |-> FALSE]
NoOp == [op |-> "none", site |-> "", contract |-> "", ok |-> TRUE,
         error |-> NoError, queried |-> FALSE, doc |-> NullDoc,
         existed |-> FALSE, handle |-> NoContract,
         privateBefore |-> PrivateState(0), privateAfter |-> PrivateState(0),
         hadPrivate |-> FALSE, during |-> "none", joinFailed |-> FALSE,
         deployedNew |-> FALSE]

(***************************************************************************)
(* Initial state: nothing connected, a freshly deployed ledger, the CLI    *)
(* about to ask the deploy-or-join question.                               *)
(***************************************************************************)
NoCalls == [versionCheck |-> 0, isEnabled |-> 0, enable |-> 0, serviceUriConfig |-> 0]
NoCall == [circuit |-> "none", index |-> 0, caller |-> "none", ok |-> TRUE,
           error |-> "", votedBefore |-> FALSE]

(***************************************************************************)
(* walletProvider: transactions and the wallet's methods.                  *)
(***************************************************************************)
TxIds == 1..MaxTx

\* a transaction as the wallet sees it
Raw(id) == [id |-> id, balanced |-> FALSE, proved |-> FALSE]
balanceTransaction(tx) == [tx EXCEPT !.balanced = TRUE]
proveTransaction(tx) == [tx EXCEPT !.proved = TRUE]

WalletMethod(method, tx) ==
  IF method = "balanceTransaction" THEN balanceTransaction(tx)
  ELSE proveTransaction(tx)

\* balanceTx awaits these wallet methods one after the other, each on the
\* result of the one before
balanceTxProveFirst == <<"proveTransaction", "balanceTransaction">>
balanceTx == <<"balanceTransaction", "proveTransaction">>

\* submitTx hands its argument to this wallet method
submitTx == "submitTransaction"

NotCalled(id) == [step |-> 0, rejected |-> FALSE, value |-> Raw(id)]
NoWalletCall == [method |-> "none", arg |-> Raw(1), during |-> FALSE]

(***************************************************************************)
(* Endpoint URLs.  new URL(url) splits scheme, host, port and the rest     *)
(* (path with query and fragment); toString() puts them together again,    *)
(* writes "/" for an empty path and leaves out the scheme's default port.  *)
(***************************************************************************)
\* index of the first "/" of s at or after position from, or Len(s) + 1
SlashFrom(s, from) ==
  IF from > Len(s) THEN Len(s) + 1
  ELSE (from - 1) + IndexOf(SubSeq(s, from, Len(s)), "/")

ParseURL(url) ==
  LET colon == IndexOf(url, ":")
      hostStart == colon + 3
      pathStart == SlashFrom(url, hostStart)
      authority == SubSeq(url, hostStart, pathStart - 1)
      portColon == IndexOf(authority, ":")
  IN [scheme |-> SubSeq(url, 1, colon - 1),
      host   |-> SubSeq(authority, 1, portColon - 1),
      port   |-> SubSeq(authority, portColon + 1, Len(authority)),
      path   |-> IF pathStart > Len(url) THEN "/"
                 ELSE SubSeq(url, pathStart, Len(url))]

DefaultPort(scheme) ==
  IF scheme \in {"http", "ws"} THEN "80"
  ELSE IF scheme \in {"https", "wss"} THEN "443"
  ELSE ""

\* the port setter: the default port of the scheme is stored as no port
SetPort(parsed, port) ==
  [parsed EXCEPT !.port = IF port = DefaultPort(parsed.scheme) THEN "" ELSE port]

URLToString(parsed) ==
  parsed.scheme \o "://" \o parsed.host
    \o (IF parsed.port = "" THEN "" ELSE ":" \o parsed.port)
    \o parsed.path

\* replace(/\/+$/, '')
RECURSIVE StripTrailingSlashes(_)
StripTrailingSlashes(str) ==
  IF Len(str) > 0 /\ SubSeq(str, Len(str), Len(str)) = "/"
    THEN StripTrailingSlashes(SubSeq(str, 1, Len(str) - 1))
    ELSE str

HasTrailingSlash(str) ==
  Len(str) > 0 /\ SubSeq(str, Len(str), Len(str)) = "/"

\* mapContainerPort(env, url, containerName), port being
\* env.getContainer(containerName).getFirstMappedPort()
mapContainerPort(url, port) ==
  StripTrailingSlashes(URLToString(SetPort(ParseURL(url), NatToString(port))))

\* ports docker maps the containers to
MappedPorts == {32768, 49153, 80}

\* endpoint URLs of the configurations
EndpointURLs ==
  {"http://127.0.0.1:8088/api/v1/graphql", "ws://127.0.0.1:8088/api/v1/graphql/ws",
   "http://127.0.0.1:9944", "http://127.0.0.1:6300/",
   "https://indexer.example/api/v1/graphql"}

\* getConfig: each VITE_ variable, or its default when unset or empty
OrDefault(value, default) == IF value = "" THEN default ELSE value

getConfig(env) ==
  [nodeUrl        |-> OrDefault(env.VITE_NODE_URL, "http://localhost:8080"),
   indexerUrl     |-> OrDefault(env.VITE_INDEXER_URL, "http://localhost:8081"),
   proofServerUrl |-> OrDefault(env.VITE_PROOF_SERVER_URL, "http://localhost:6300"),
   networkId      |-> OrDefault(env.VITE_NETWORK_ID, "testnet")]

\* what the build can have in import.meta.env; "" is an unset variable
ViteUrls == {"", "http://node.example:9944", "https://rpc.example/"}
ViteEnvs == [VITE_NODE_URL : ViteUrls, VITE_INDEXER_URL : ViteUrls,
             VITE_PROOF_SERVER_URL : ViteUrls,
             VITE_NETWORK_ID : {"", "undeployed"}]
NoViteEnv == [VITE_NODE_URL |-> "", VITE_INDEXER_URL |-> "",
              VITE_PROOF_SERVER_URL |-> "", VITE_NETWORK_ID |-> ""]

NoAppConfig == [nodeUrl |-> "", indexerUrl |-> "", proofServerUrl |-> "",
                networkId |-> ""]
NotResolved == [op |-> "none", url |-> "", port |-> 0, mapped |-> "",
                config |-> NoAppConfig]

(***************************************************************************)
(* run(): the resources and the teardown cascade.                          *)
(***************************************************************************)
\* the nested try/finally of run(): readline, then wallet, then environment
TeardownReversed == <<"wallet", "env", "rli">>
TeardownOrder == <<"rli", "wallet", "env">>

\* each step sits in its own try/catch, the next one in its finally
NextTeardownStop(at, threw) == IF threw THEN Len(TeardownOrder) + 1 ELSE at + 1
NextTeardown(at, threw) == at + 1

\* run()'s catch: an Error is logged, anything else is thrown again
RunCatch(error) == IF error.isError THEN NoError ELSE error

RunConfigs == [docker : BOOLEAN, standalone : BOOLEAN]

\* the endpoints of the config run() is given
ConfigEndpoints ==
  [indexer     |-> "http://127.0.0.1:8088/api/v1/graphql",
   indexerWS   |-> "ws://127.0.0.1:8088/api/v1/graphql/ws",
   node        |-> "http://127.0.0.1:9944",
   proofServer |-> "http://127.0.0.1:6300"]

\* first mapped ports of counter-indexer, counter-node, counter-proof-server
ContainerPorts == [indexer : MappedPorts, node : MappedPorts,
                   proofServer : MappedPorts]

\* the remapping of run(): for a StandaloneConfig only
RemapPortsAlways(config, urls, ports) ==
  [endpoints |->
     [indexer     |-> mapContainerPort(urls.indexer, ports.indexer),
      indexerWS   |-> mapContainerPort(urls.indexerWS, ports.indexer),
      node        |-> mapContainerPort(urls.node, ports.node),
      proofServer |-> mapContainerPort(urls.proofServer, ports.proofServer)],
   rewritten |-> TRUE]
RemapPorts(config, urls, ports) ==
  IF config.standalone
    THEN [endpoints |->
            [indexer     |-> mapContainerPort(urls.indexer, ports.indexer),
             indexerWS   |-> mapContainerPort(urls.indexerWS, ports.indexer),
             node        |-> mapContainerPort(urls.node, ports.node),
             proofServer |-> mapContainerPort(urls.proofServer, ports.proofServer)],
          rewritten |-> TRUE]
    ELSE [endpoints |-> urls, rewritten |-> FALSE]

NotRead == [readers |-> <<>>, first |-> ConfigEndpoints, last |-> ConfigEndpoints]

\* the provider after the page loaded, with what the build and earlier
\* sessions left behind
ProviderLoaded(envAddress, storage) ==
  /\ isConnected = FALSE /\ isConnecting = FALSE /\ isLoading = FALSE
  /\ proofServerIsOnline = FALSE
  /\ walletAPI = FALSE /\ providers = FALSE /\ address = ""
  /\ inFlight = NoFlight /\ handshake = "none"
  /\ contractAddress = "" /\ deployedContract = NoContract
  /\ count = 0
  /\ localStorage = storage /\ viteAddress = envAddress
  /\ privateStateSet = FALSE /\ handleHistory = NoHistory /\ lastOp = NoOp

\* the handles that are bound to one contract address: two tabs, or the
\* handles of a deploy and of a later join
Callers == {"handle1", "handle2"}
SharedContract == "contract_1"
NotWaiting == [op |-> "none", newValue |-> 0, fallback |-> TRUE,
               overlapped |-> FALSE]
NoTx == [op |-> "none", caller |-> "none", before |-> 0, after |-> 0,
         fallback |-> TRUE, overlapped |-> FALSE]
NoTxHistory == [started |-> 0, increments |-> 0, decrements |-> 0,
                fallback |-> TRUE]

InitOthers ==
  /\ pc = "Idle" /\ now = 0 /\ ticks = 0 /\ connectorAPI = NoConnector
  /\ subscriptions = 0 /\ stages = <<>> /\ calls = NoCalls
  /\ cause = "None" /\ rejection = NoError /\ errorType = "NONE"
  /\ round = FreshLedger.round /\ votesA = FreshLedger.votesA
  /\ votesB = FreshLedger.votesB /\ items = FreshLedger.items
  /\ pre = FreshLedger
  /\ lastCall = NoCall
  /\ voters = {}
  /\ cli = "deployOrJoin" /\ answers = <<>> /\ invoked = <<>> /\ logger = <<>>
  /\ invalidCount = 0 /\ thrown = NoError
  /\ txCalls = [id \in TxIds |-> NotCalled(id)]
  /\ submittedTxs = {} /\ lastWalletCall = NoWalletCall
  /\ runPc = "start" /\ runConfig = [docker |-> FALSE, standalone |-> FALSE]
  /\ acquired = <<>> /\ attempted = <<>> /\ teardownErrors = <<>>
  /\ teardownAt = 1 /\ pending = NoError /\ outcome = "running"
  /\ ending = "none"
  /\ endpoints = ConfigEndpoints /\ rewrites = 0 /\ configRead = NotRead
  /\ resolved = NotResolved
  /\ shared = deployCounterContract(EmptyStorage, SharedContract, TRUE).storage
  /\ waiting = [caller \in Callers |-> NotWaiting]
  /\ lastTx = NoTx /\ txHistory = NoTxHistory

Init ==
  /\ InitOthers
  /\ ProviderLoaded("", EmptyStorage)
  /\ viteEnv = NoViteEnv

(***************************************************************************)
(* connectToWallet: the RxJS pipeline                                      *)
(*   interval(100) | map | filter | concatMap(version) | take(1)           *)
(*   | timeout(first 1000) | concatMap(isEnabled) | timeout(first 5000)    *)
(*   | concatMap(enable) | catchError | concatMap(serviceUriConfig)        *)
(* awaited by connect through firstValueFrom.                              *)
(***************************************************************************)
\* the handshake leaves the ledger and the CLI alone
HandshakeFrame == UNCHANGED <<ledgerVars, callVars, cliVars, restVars>>

\* connect() calls connectToWallet(): firstValueFrom subscribes the pipeline
Connect ==
  /\ HandshakeFrame
  /\ pc = "Idle"
  /\ pc' = "Polling"
  /\ subscriptions' = 1
  /\ UNCHANGED <<now, ticks, connectorAPI, stages, calls, cause, rejection, errorType>>

\* catchError((error, apis) => error ? throwError(not authorized) : apis):
\* a truthy error is replaced, a falsy one resubscribes the caught pipeline
catchError(error) ==
  IF error.truthy
  THEN [resubscribe |-> FALSE, error |-> Err(NotAuthorizedMessage)]
  ELSE [resubscribe |-> TRUE, error |-> NoError]

\* firstValueFrom rejects with `error`; connect's catch classifies it
Reject(error, stage, t, seen) ==
  /\ pc' = "Rejected"
  /\ now' = t
  /\ connectorAPI' = seen
  /\ rejection' = error
  /\ errorType' = ConnectCatch(error)
  /\ cause' = stage
  /\ UNCHANGED <<ticks, subscriptions, stages>>

\* an error raised upstream of catchError, at time t, for the connector seen
FailUpstream(error, stage, t, seen) ==
  LET handled == catchError(error)
  IN IF handled.resubscribe
     THEN /\ pc' = "Polling"
          /\ now' = 0
          /\ ticks' = 0
          /\ connectorAPI' = NoConnector
          /\ stages' = <<>>
          /\ subscriptions' = subscriptions + 1
          /\ UNCHANGED <<cause, rejection, errorType>>
     ELSE Reject(handled.error, stage, t, seen)

\* one emission of interval(100): map reads window.midnight?.mnLace (seen),
\* filter drops an absent connector, concatMap checks the version, take(1)
\* ends the polling and the isEnabled() probe is started
PollTick(seen) ==
  /\ HandshakeFrame
  /\ pc = "Polling"
  /\ (ticks + 1) * PollInterval <= DiscoveryTimeout
  /\ IF seen = NoConnector
     THEN /\ ticks' = ticks + 1
          /\ now' = (ticks + 1) * PollInterval
          /\ UNCHANGED <<pc, connectorAPI, subscriptions, stages, calls,
                         cause, rejection, errorType>>
     ELSE IF SemverSatisfies(seen.apiVersion, COMPATIBLE_CONNECTOR_API_VERSION)
     THEN /\ ticks' = ticks + 1
          /\ now' = (ticks + 1) * PollInterval
          /\ connectorAPI' = seen
          /\ stages' = <<"Present", "VersionCheck">>
          /\ calls' = [calls EXCEPT !.versionCheck = @ + 1, !.isEnabled = @ + 1]
          /\ pc' = "IsEnabled"
          /\ UNCHANGED <<subscriptions, cause, rejection, errorType>>
     ELSE /\ calls' = [calls EXCEPT !.versionCheck = @ + 1]
          /\ FailUpstream(Err(IncompatibleVersionMessage(seen.apiVersion)),
                          "VersionCheck", (ticks + 1) * PollInterval, seen)

\* timeout({first: 1_000}): no connector passed within the discovery timeout
DiscoveryTimeoutFires ==
  /\ HandshakeFrame
  /\ pc = "Polling"
  /\ (ticks + 1) * PollInterval >= DiscoveryTimeout
  /\ FailUpstream(Err(NotFoundMessage), "Polling", DiscoveryTimeout, connectorAPI)
  /\ UNCHANGED calls

\* connectorAPI.isEnabled() resolves after d ms: enable() is called
IsEnabledResolves(d) ==
  /\ HandshakeFrame
  /\ pc = "IsEnabled"
  /\ now + d <= ResponseTimeout
  /\ now' = now + d
  /\ stages' = Append(stages, "IsEnabled")
  /\ calls' = [calls EXCEPT !.enable = @ + 1]
  /\ pc' = "Enable"
  /\ UNCHANGED <<ticks, connectorAPI, subscriptions, cause, rejection, errorType>>

\* connectorAPI.isEnabled() rejects after d ms
IsEnabledRejects(d, error) ==
  /\ HandshakeFrame
  /\ pc = "IsEnabled"
  /\ now + d <= ResponseTimeout
  /\ error.truthy \/ subscriptions < MaxSubscriptions
  /\ FailUpstream(error, "IsEnabled", now + d, connectorAPI)
  /\ UNCHANGED calls

\* timeout({first: 5_000}): no value reached it within 5 s of the subscription
ResponseTimeoutFires ==
  /\ HandshakeFrame
  /\ pc = "IsEnabled"
  /\ FailUpstream(Err(NoResponseMessage), "Responsiveness", ResponseTimeout,
                  connectorAPI)
  /\ UNCHANGED calls

\* connectorAPI.enable() resolves: serviceUriConfig() is called
EnableResolves ==
  /\ HandshakeFrame
  /\ pc = "Enable"
  /\ stages' = Append(stages, "Authorize")
  /\ calls' = [calls EXCEPT !.serviceUriConfig = @ + 1]
  /\ pc' = "ServiceUriConfig"
  /\ UNCHANGED <<now, ticks, connectorAPI, subscriptions, cause, rejection, errorType>>

\* connectorAPI.enable() rejects or throws
EnableRejects(error) ==
  /\ HandshakeFrame
  /\ pc = "Enable"
  /\ error.truthy \/ subscriptions < MaxSubscriptions
  /\ FailUpstream(error, "Authorize", now, connectorAPI)
  /\ UNCHANGED calls

\* connectorAPI.serviceUriConfig() resolves: firstValueFrom resolves with
\* { wallet, uris }
ServiceUriConfigResolves ==
  /\ HandshakeFrame
  /\ pc = "ServiceUriConfig"
  /\ stages' = Append(stages, "EndpointRetrieval")
  /\ pc' = "Resolved"
  /\ UNCHANGED <<now, ticks, connectorAPI, subscriptions, calls, cause,
                 rejection, errorType>>

\* connectorAPI.serviceUriConfig() rejects: downstream of catchError, the
\* error reaches the caller as it is
ServiceUriConfigRejects(error) ==
  /\ HandshakeFrame
  /\ pc = "ServiceUriConfig"
  /\ Reject(error, "EndpointRetrieval", now, connectorAPI)
  /\ UNCHANGED calls

NextHandshake ==
  \/ Connect
  \/ \E seen \in Connectors \cup {NoConnector} : PollTick(seen)
  \/ DiscoveryTimeoutFires
  \/ \E d \in Delays : IsEnabledResolves(d)
  \/ \E d \in Delays, error \in WalletRejections : IsEnabledRejects(d, error)
  \/ ResponseTimeoutFires
  \/ EnableResolves
  \/ \E error \in WalletRejections : EnableRejects(error)
  \/ ServiceUriConfigResolves
  \/ \E error \in WalletRejections : ServiceUriConfigRejects(error)

SpecHandshake == Init /\ [][NextHandshake]_vars

(***************************************************************************)
(* Claims about the handshake (checked under SpecHandshake).               *)
(***************************************************************************)
\* the stages of a handshake, in the order the pipeline composes them
StageOrder == <<"Present", "VersionCheck", "IsEnabled", "Authorize", "EndpointRetrieval">>

\* the versions of ApiVersions that lie in the range 1.x
VersionsIn1x == {"1.0.0", "1.12.3"}

\* C1: connectToWallet resolves only after the connector was seen, its version
\* satisfied 1.x, isEnabled() returned, enable() resolved and serviceUriConfig()
\* resolved, in this order; at every moment the stages passed so far are a
\* prefix of that order, none skipped.
C1_StagesInOrder ==
  /\ Len(stages) <= Len(StageOrder)
  /\ stages = SubSeq(StageOrder, 1, Len(stages))
  /\ pc = "Resolved" =>
       /\ stages = StageOrder
       /\ connectorAPI.apiVersion \in VersionsIn1x
       /\ rejection = NoError
  /\ pc = "ServiceUriConfig" => stages = SubSeq(StageOrder, 1, 4)
  /\ pc = "Enable" => stages = SubSeq(StageOrder, 1, 3)
  /\ pc = "IsEnabled" => stages = SubSeq(StageOrder, 1, 2)

\* C1 witness: a handshake that resolved after polling several times
C1_Witness == pc = "Resolved" /\ ticks >= 3

\* C2: a connector whose apiVersion is outside 1.x makes the handshake fail
\* with a failure classified INCOMPATIBLE_API_VERSION, however long the
\* polling ran.
C2_IncompatibleVersionReported ==
  (connectorAPI # NoConnector /\ connectorAPI.apiVersion \notin VersionsIn1x)
    => (pc = "Rejected" /\ errorType = "INCOMPATIBLE_API_VERSION")

\* C3: when the discovery timeout passes without a connector, the handshake
\* fails and the failure is classified WALLET_NOT_FOUND.
C3_NotFoundReported ==
  (pc = "Rejected" /\ cause = "Polling") => errorType = "WALLET_NOT_FOUND"

\* C4: when isEnabled() does not answer within the response timeout, the
\* handshake fails and the failure is classified TIMEOUT_API_RESPONSE.
C4_UnresponsiveReported ==
  (pc = "Rejected" /\ cause = "Responsiveness") => errorType = "TIMEOUT_API_RESPONSE"

\* C5: a failure of enable() is classified UNAUTHORIZED and serviceUriConfig()
\* is not called; and UNAUTHORIZED is reported only for a failure of the
\* Authorize stage.
C5_UnauthorizedOnlyFromAuthorize ==
  /\ (pc = "Rejected" /\ cause = "Authorize") =>
       (errorType = "UNAUTHORIZED" /\ calls.serviceUriConfig = 0)
  /\ errorType = "UNAUTHORIZED" => cause = "Authorize"

\* C6: within one connectToWallet run the version check, isEnabled(), enable()
\* and serviceUriConfig() each execute at most once.
C6_EachStageAtMostOnce ==
  /\ calls.versionCheck <= 1
  /\ calls.isEnabled <= 1
  /\ calls.enable <= 1
  /\ calls.serviceUriConfig <= 1

(***************************************************************************)
(* The contract on its own: wallets submit circuit calls to one deployed   *)
(* contract.  A call is a transaction: it commits the ledger the circuit   *)
(* computed, or fails and commits nothing.                                 *)
(***************************************************************************)
\* commit the result of a circuit call and record the call
Commit(result, circuit, index, caller) ==
  /\ pre' = Ledger
  /\ round' = result.ledger.round
  /\ votesA' = result.ledger.votesA
  /\ votesB' = result.ledger.votesB
  /\ items' = result.ledger.items
  /\ lastCall' = [circuit |-> circuit, index |-> index, caller |-> caller,
                  ok |-> result.ok, error |-> result.error,
                  votedBefore |-> caller \in voters]
  /\ voters' = IF circuit = "vote_for" /\ result.ok THEN voters \cup {caller}
               ELSE voters

CallIncrement(caller) ==
  /\ round < MaxRound
  /\ Commit(increment(Ledger), "increment", 0, caller)
  /\ UNCHANGED <<hsVars, cliVars, restVars>>

CallVoteFor(caller, index) ==
  /\ Commit(vote_for(Ledger, index), "vote_for", index, caller)
  /\ UNCHANGED <<hsVars, cliVars, restVars>>

NextLedger ==
  \/ \E caller \in Wallets : CallIncrement(caller)
  \/ \E caller \in Wallets, index \in Indexes : CallVoteFor(caller, index)

SpecLedger == Init /\ [][NextLedger]_vars

\* C9: with index in {0, 1}, the first vote_for of an identity succeeds and
\* raises the chosen tally by exactly 1 (the other tally and round keep their
\* values); a later vote_for of the same identity fails on 'Already voted'
\* and leaves votesA, votesB, items and round as they were.
C9_SecondVoteRejected ==
  (lastCall.circuit = "vote_for" /\ lastCall.index \in {0, 1}) =>
    IF public_key_vote(secret_key, instance) \in pre.items
    THEN /\ ~lastCall.ok
         /\ lastCall.error = "Already voted"
         /\ Ledger = pre
    ELSE /\ lastCall.ok
         /\ votesA = pre.votesA + (IF lastCall.index = 0 THEN 1 ELSE 0)
         /\ votesB = pre.votesB + (IF lastCall.index = 1 THEN 1 ELSE 0)
         /\ round = pre.round
         /\ items = pre.items \cup {public_key_vote(secret_key, instance)}

\* C9 witness: a second vote was rejected after a first one was counted
C9_Witness ==
  /\ lastCall.circuit = "vote_for" /\ lastCall.index \in {0, 1}
  /\ ~lastCall.ok
  /\ votesA + votesB = 1
  /\ Ledger = pre

\* C11: each identity contributes at most one accepted vote: a vote_for call
\* is accepted only if the marker of the identity was not yet in items, so
\* votesA + votesB never exceeds the number of markers in items.
C11_OneAcceptedVotePerIdentity ==
  /\ votesA + votesB <= Cardinality(items)
  /\ (lastCall.circuit = "vote_for" /\ lastCall.ok) =>
       /\ public_key_vote(secret_key, instance) \notin pre.items
       /\ public_key_vote(secret_key, instance) \in items
  /\ (lastCall.circuit = "vote_for" /\ ~lastCall.ok) =>
       public_key_vote(secret_key, instance) \in pre.items

\* C11 witness: a vote was accepted and counted for the one marker in items
C11_Witness ==
  /\ lastCall.circuit = "vote_for" /\ lastCall.ok
  /\ votesA + votesB = 1
  /\ Cardinality(items) = 1

\* C29: the repeated items.insert of the marker in vote_for is harmless:
\* after an accepted vote_for, items holds the caller's marker once and is
\* the set a single insert would have produced.
C29_RepeatedInsertHarmless ==
  (lastCall.circuit = "vote_for" /\ lastCall.ok) =>
    /\ items = pre.items \cup {public_key_vote(secret_key, instance)}
    /\ Cardinality(items) = Cardinality(pre.items) + 1
    /\ Cardinality({m \in items : m = public_key_vote(secret_key, instance)}) = 1

\* C29 witness: a vote with index 1 was accepted, so the marker was inserted
\* twice
C29_Witness ==
  /\ lastCall.circuit = "vote_for" /\ lastCall.ok /\ lastCall.index = 1
  /\ votesB = pre.votesB + 1
  /\ public_key_vote(secret_key, instance) \in items

\* C37: every accepted vote is counted: for vote_for with any index of
\* Uint<8>, votesA + votesB equals the number of markers in items.
C37_EveryAcceptedVoteCounted ==
  votesA + votesB = Cardinality(items)

\* C30: each wallet can vote once: a vote_for with index 0 or 1 from a
\* wallet that has not voted on the contract is accepted, also after other
\* wallets voted, and is rejected only when that wallet voted before.
C30_EachWalletVotesOnce ==
  (lastCall.circuit = "vote_for" /\ lastCall.index \in {0, 1}) =>
    (lastCall.ok <=> ~lastCall.votedBefore)

(***************************************************************************)
(* The CLI: mainLoop = deployOrJoin, then the operate-loop.  The api       *)
(* module the menus call is modelled by its contract: increment and the    *)
(* two votes submit the circuit of the same name, the two display          *)
(* operations read the ledger, and any of them may fail on its providers.  *)
(***************************************************************************)
\* answers a user may type at a prompt
Choices == {"1", "2", "3", "4", "5", "6", "9", "x"}

\* what an operation may throw when a provider fails: an Error or another value
OperationFailures == {Err("fetch failed"), StringValue("socket closed")}

\* the ledger of a contract that join may find at the address
JoinableLedgers ==
  { FreshLedger,
    [round |-> 1, votesA |-> 1, votesB |-> 0,
     items |-> {public_key_vote(secret_key, instance)}] }

\* the error a failed assert of a circuit reaches the caller with
AssertFailure(message) == Err("failed assert: " \o message)

\* the switch of the operate-loop: the api operation a choice invokes
MainLoopSwitchShifted(choice) ==
  CASE choice = "1" -> "increment"
    [] choice = "2" -> "displayCounterValue"
    [] choice = "3" -> "voteForOptionB"
    [] choice = "4" -> "voteForOptionA"
    [] choice = "5" -> "displayVotingResults"
    [] choice = "6" -> "exit"
    [] OTHER -> "invalid"

MainLoopSwitch(choice) ==
  CASE choice = "1" -> "increment"
    [] choice = "2" -> "displayCounterValue"
    [] choice = "3" -> "voteForOptionA"
    [] choice = "4" -> "voteForOptionB"
    [] choice = "5" -> "displayVotingResults"
    [] choice = "6" -> "exit"
    [] OTHER -> "invalid"

\* the lines an operation logs before it is awaited, and after it succeeded
LinesBefore(op) ==
  CASE op = "voteForOptionA" -> <<"info: Casting vote for Option A...">>
    [] op = "voteForOptionB" -> <<"info: Casting vote for Option B...">>
    [] OTHER -> <<>>
LinesAfter(op) ==
  CASE op = "increment" -> <<"info: Counter incremented successfully!">>
    [] op = "voteForOptionA" -> <<"info: Vote for Option A cast successfully!">>
    [] op = "voteForOptionB" -> <<"info: Vote for Option B cast successfully!">>
    [] OTHER -> <<>>

\* a catch block that lets the error escape the loop
MainLoopCatchRethrow(error) ==
  [lines |-> <<>>, cli |-> "threw"]

\* the catch block of the operate-loop
MainLoopCatch(error) ==
  [lines |->
     (IF error.isError
      THEN <<"error: Operation failed: " \o error.message>>
             \o (IF Includes(error.message, "member")
                 THEN <<"warn: This might be because you have already voted. Each wallet can only vote once.">>
                 ELSE <<>>)
      ELSE <<"error: Unknown error occurred: " \o error.message>>)
     \o <<"info: You can try another operation or exit.">>,
   cli |-> "mainLoop"]

\* the circuit call an api operation submits (displays submit none)
Submitted(op, L) ==
  CASE op = "increment" -> increment(L)
    [] op = "voteForOptionA" -> vote_for(L, 0)
    [] op = "voteForOptionB" -> vote_for(L, 1)
    [] OTHER -> [ok |-> TRUE, error |-> "", ledger |-> L]

CircuitOf(op) == IF op = "increment" THEN "increment" ELSE "vote_for"
IndexOfOp(op) == IF op = "voteForOptionB" THEN 1 ELSE 0
IsTransaction(op) == op \in {"increment", "voteForOptionA", "voteForOptionB"}

\* the wallet the CLI was built with
CliWallet == "wallet1"

\* deployOrJoin: one answer to DEPLOY_OR_JOIN_QUESTION
\* '1': api.deploy resolves with a handle on a fresh contract
DeployOrJoinDeploys ==
  /\ cli = "deployOrJoin"
  /\ cli' = "mainLoop"
  /\ logger' = <<"info: === Counter & Voting Contract CLI ===">>
  /\ round' = FreshLedger.round /\ votesA' = FreshLedger.votesA
  /\ votesB' = FreshLedger.votesB /\ items' = FreshLedger.items
  /\ UNCHANGED <<answers, invoked, invalidCount, thrown, callVars, hsVars, restVars>>

\* '2': join asks for the address and api.joinContract finds the contract
DeployOrJoinJoins(found) ==
  /\ cli = "deployOrJoin"
  /\ cli' = "mainLoop"
  /\ logger' = <<"info: === Counter & Voting Contract CLI ===">>
  /\ round' = found.round /\ votesA' = found.votesA
  /\ votesB' = found.votesB /\ items' = found.items
  /\ UNCHANGED <<answers, invoked, invalidCount, thrown, callVars, hsVars, restVars>>

\* '1' or '2': api.deploy or api.joinContract rejects; nothing in deployOrJoin
\* or mainLoop catches it
DeployOrJoinThrows(error) ==
  /\ cli = "deployOrJoin"
  /\ cli' = "threw"
  /\ thrown' = error
  /\ logger' = <<>>
  /\ UNCHANGED <<answers, invoked, invalidCount, ledgerVars, callVars, hsVars, restVars>>

\* '3': deployOrJoin returns null and mainLoop returns
DeployOrJoinExits ==
  /\ cli = "deployOrJoin"
  /\ cli' = "noContract"
  /\ logger' = <<"info: Exiting...">>
  /\ UNCHANGED <<answers, invoked, invalidCount, thrown, ledgerVars, callVars, hsVars, restVars>>

\* any other answer: the question is asked again
DeployOrJoinInvalid(choice) ==
  /\ cli = "deployOrJoin"
  /\ choice \notin {"1", "2", "3"}
  /\ logger' = <<"error: Invalid choice: " \o choice>>
  /\ UNCHANGED <<cli, answers, invoked, invalidCount, thrown, ledgerVars, callVars, hsVars, restVars>>

\* the operate-loop: one answer to MAIN_LOOP_QUESTION
\* '6': the loop returns
MainLoopExits ==
  /\ cli = "mainLoop"
  /\ Len(answers) < MaxInputs
  /\ MainLoopSwitch("6") = "exit"
  /\ answers' = Append(answers, "6")
  /\ logger' = <<"info: Exiting...">>
  /\ cli' = "exited"
  /\ thrown' = NoError
  /\ UNCHANGED <<invoked, invalidCount, ledgerVars, callVars, hsVars, restVars>>

\* an answer outside '1'..'6'
MainLoopInvalid(choice) ==
  /\ cli = "mainLoop"
  /\ Len(answers) < MaxInputs
  /\ MainLoopSwitch(choice) = "invalid"
  /\ answers' = Append(answers, choice)
  /\ logger' = <<"error: Invalid choice: " \o choice>>
  /\ invalidCount' = invalidCount + 1
  /\ thrown' = NoError
  /\ UNCHANGED <<cli, invoked, ledgerVars, callVars, hsVars, restVars>>

\* '1'..'5': the operation is invoked and awaited; its transaction commits,
\* or fails on its assert
MainLoopOperation(choice) ==
  LET op == MainLoopSwitch(choice)
      result == Submitted(op, Ledger)
      caught == MainLoopCatch(AssertFailure(result.error))
  IN /\ cli = "mainLoop"
     /\ Len(answers) < MaxInputs
     /\ op \notin {"exit", "invalid"}
     /\ result.ledger.round <= MaxRound
     /\ answers' = Append(answers, choice)
     /\ invoked' = Append(invoked, op)
     /\ IF IsTransaction(op)
        THEN Commit(result, CircuitOf(op), IndexOfOp(op), CliWallet)
        ELSE UNCHANGED <<ledgerVars, callVars>>
     /\ IF result.ok
        THEN /\ logger' = LinesBefore(op) \o LinesAfter(op)
             /\ thrown' = NoError
             /\ UNCHANGED cli
        ELSE /\ logger' = LinesBefore(op) \o caught.lines
             /\ thrown' = AssertFailure(result.error)
             /\ cli' = caught.cli
     /\ UNCHANGED <<invalidCount, hsVars, restVars>>

\* '1'..'5': the operation is invoked and a provider fails: nothing commits
MainLoopOperationFails(choice, error) ==
  LET op == MainLoopSwitch(choice)
      caught == MainLoopCatch(error)
  IN /\ cli = "mainLoop"
     /\ Len(answers) < MaxInputs
     /\ op \notin {"exit", "invalid"}
     /\ answers' = Append(answers, choice)
     /\ invoked' = Append(invoked, op)
     /\ logger' = LinesBefore(op) \o caught.lines
     /\ thrown' = error
     /\ cli' = caught.cli
     /\ lastCall' = NoCall
     /\ UNCHANGED <<pre, voters, invalidCount, ledgerVars, hsVars, restVars>>

NextCli ==
  \/ DeployOrJoinDeploys
  \/ \E found \in JoinableLedgers : DeployOrJoinJoins(found)
  \/ \E error \in OperationFailures : DeployOrJoinThrows(error)
  \/ DeployOrJoinExits
  \/ \E choice \in Choices : DeployOrJoinInvalid(choice)
  \/ MainLoopExits
  \/ \E choice \in Choices : MainLoopInvalid(choice)
  \/ \E choice \in Choices : MainLoopOperation(choice)
  \/ \E choice \in Choices, error \in OperationFailures :
       MainLoopOperationFails(choice, error)

SpecCli == Init /\ [][NextCli]_vars

(***************************************************************************)
(* Claims about the operate-loop (checked under SpecCli).                  *)
(***************************************************************************)
Last(seq) == seq[Len(seq)]
RetryLine == "info: You can try another operation or exit."
HintLine ==
  "warn: This might be because you have already voted. Each wallet can only vote once."

\* C7: a failure thrown by an operation chosen in the operate-loop is caught
\* in the loop and reported, and the loop goes on to the next prompt; the
\* loop ends only on the answer '6'.
C7_FailuresDoNotEndLoop ==
  /\ (answers # <<>> /\ thrown # NoError) =>
       /\ cli = "mainLoop"
       /\ Last(logger) = RetryLine
       /\ \E i \in 1..Len(logger) :
            \/ logger[i] = "error: Operation failed: " \o thrown.message
            \/ logger[i] = "error: Unknown error occurred: " \o thrown.message
  /\ cli = "exited" => (answers # <<>> /\ Last(answers) = "6")
  /\ cli = "threw" => answers = <<>>

\* C7 witness: the second operation of a session failed and the loop goes on
C7_Witness ==
  /\ Len(answers) = 2 /\ Len(invoked) = 2
  /\ thrown # NoError
  /\ cli = "mainLoop"

\* the operation the menu promises for a choice
MenuOperation(choice) ==
  CASE choice = "1" -> "increment"
    [] choice = "2" -> "displayCounterValue"
    [] choice = "3" -> "voteForOptionA"
    [] choice = "4" -> "voteForOptionB"
    [] choice = "5" -> "displayVotingResults"

RECURSIVE MenuOperations(_)
MenuOperations(input) ==
  IF input = <<>> THEN <<>>
  ELSE IF Head(input) \in {"1", "2", "3", "4", "5"}
       THEN <<MenuOperation(Head(input))>> \o MenuOperations(Tail(input))
       ELSE MenuOperations(Tail(input))

\* C8: up to the first '6', each answer '1'..'5' invokes the operation of
\* that menu entry exactly once, in input order; every other answer writes
\* one 'Invalid choice' error and invokes nothing; at '6' the loop returns.
C8_DispatchFollowsInput ==
  /\ invoked = MenuOperations(answers)
  /\ invalidCount =
       Cardinality({i \in 1..Len(answers) :
                      answers[i] \notin {"1", "2", "3", "4", "5", "6"}})
  /\ \A i \in 1..(Len(answers) - 1) : answers[i] # "6"
  /\ (cli = "exited") <=> (answers # <<>> /\ Last(answers) = "6")
  /\ answers # <<>> => cli \in {"mainLoop", "exited"}
  /\ (answers # <<>> /\ Last(answers) \notin {"1", "2", "3", "4", "5", "6"}) =>
       logger = <<"error: Invalid choice: " \o Last(answers)>>

\* C8 witness: ['1','1','6'] on a freshly deployed contract increments twice
\* and returns
C8_Witness ==
  /\ answers = <<"1", "1", "6">>
  /\ invoked = <<"increment", "increment">>
  /\ round = 2
  /\ cli = "exited"

\* C10: a vote that fails because the identity already voted gets the
\* 'you may have already voted' hint, and no other failure gets it.
C10_DuplicateVoteGetsHint ==
  (answers # <<>> /\ thrown # NoError) =>
    ((\E i \in 1..Len(logger) : logger[i] = HintLine)
       <=> (lastCall.circuit = "vote_for" /\ ~lastCall.ok
              /\ lastCall.error = "Already voted"))

(***************************************************************************)
(* MidnightWalletProvider: connect runs in two steps (isConnecting is set  *)
(* while connectToWallet is awaited), increment and decrement run in two   *)
(* steps (the handle's callTx waits 2000 ms for its block between reading  *)
(* the round and writing it); every other handler runs to completion in    *)
(* one step.  A handler works from the state of the render it was created  *)
(* in.                                                                     *)
(***************************************************************************)
ProviderFrame == UNCHANGED <<hsVars, ledgerVars, callVars, cliVars, txVars, runVars,
                             configVars, handleVars>>

\* the values connectToWallet rejects with
ConnectRejections ==
  {Err(NotFoundMessage), Err(NotAuthorizedMessage)} \cup WalletRejections

WalletStateOk == [ok |-> TRUE, error |-> NoError]
WalletStateFails(error) == [ok |-> FALSE, error |-> error]

\* the handler that is part-way through when another one acts
Overlapped ==
  IF inFlight # NoFlight THEN inFlight.op
  ELSE IF isConnecting THEN "connect" ELSE "none"

Observed(op) == [NoOp EXCEPT !.op = op, !.hadPrivate = privateStateSet]

\* a generated address (timestamp and random suffix) is one nothing refers to
IsFresh(contract) ==
  /\ localStorage[contract] = NoItem
  /\ contract # viteAddress
  /\ contract # deployedContract.address
  /\ contract # inFlight.handle.address

\* connect's catch and finally: a toast and the shake, no state is set
ConnectFailsConnected(site, error) ==
  /\ isConnecting' = FALSE
  /\ isConnected' = TRUE
  /\ handshake' = IF site = "connectToWallet" THEN "rejected" ELSE "resolved"
  /\ lastOp' = [Observed("connect") EXCEPT !.ok = FALSE, !.error = error,
                                           !.site = site]
  /\ UNCHANGED <<walletAPI, providers, address, proofServerIsOnline,
                 contractVars, isLoading, count, localStorage,
                 viteAddress, inFlight, privateStateSet, handleHistory>>
ConnectFailsStaysConnecting(site, error) ==
  /\ isConnecting' = TRUE
  /\ handshake' = IF site = "connectToWallet" THEN "rejected" ELSE "resolved"
  /\ lastOp' = [Observed("connect") EXCEPT !.ok = FALSE, !.error = error,
                                           !.site = site]
  /\ UNCHANGED <<sessionVars, contractVars, isLoading, count, localStorage,
                 viteAddress, inFlight, privateStateSet, handleHistory>>
ConnectFails(site, error) ==
  /\ isConnecting' = FALSE
  /\ handshake' = IF site = "connectToWallet" THEN "rejected" ELSE "resolved"
  /\ lastOp' = [Observed("connect") EXCEPT !.ok = FALSE, !.error = error,
                                           !.site = site]
  /\ UNCHANGED <<sessionVars, contractVars, isLoading, count, localStorage,
                 viteAddress, inFlight, privateStateSet, handleHistory>>

\* the widget's button calls connect when not connected, and is disabled
\* while connecting
ProviderConnectStarts ==
  /\ ProviderFrame
  /\ ~isConnected /\ ~isConnecting
  /\ isConnecting' = TRUE
  /\ handshake' = "pending"
  /\ UNCHANGED <<sessionVars, contractVars, isLoading, count, localStorage,
                 viteAddress, inFlight, privateStateSet, handleHistory, lastOp>>

ConnectToWalletRejects(error) ==
  /\ ProviderFrame
  /\ isConnecting
  /\ ConnectFails("connectToWallet", error)

\* connect after connectToWallet resolved: wallet.state(), then
\* initializeProviders (which awaits wallet.state() again), the setters,
\* join or deploy, loadCount
ConnectProceeds(walletState, walletStateAgain, fresh, response, stored) ==
  LET bundle == initializeProviders(walletStateAgain)
      joined == joinExistingContract(response, localStorage,
                                     IF viteAddress = "" THEN fresh ELSE viteAddress)
      deployed == deployCounterContract(localStorage, fresh, stored)
      chosen == ConnectContract(viteAddress, joined, deployed)
      storage == IF chosen.deployedNew THEN deployed.storage ELSE localStorage
      loaded == loadCount(isConnected, providers, contractAddress, response,
                          storage, count)
      seen == [Observed("connect") EXCEPT
                 !.site = IF walletStateAgain.ok THEN "" ELSE "initializeProviders",
                 !.during = Overlapped,
                 !.joinFailed = (viteAddress # "" /\ ~joined.ok),
                 !.deployedNew = chosen.deployedNew]
  IN /\ isConnecting
     /\ IF ~walletState.ok THEN ConnectFails("connect", walletState.error)
        ELSE IF ~bundle.ok THEN ConnectFails("initializeProviders", bundle.error)
        ELSE /\ chosen.deployedNew => IsFresh(fresh)
             /\ walletAPI' = TRUE /\ providers' = TRUE /\ address' = "mn_addr"
             /\ isConnected' = TRUE /\ proofServerIsOnline' = TRUE
             /\ handshake' = "resolved"
             /\ localStorage' = storage
             /\ IF chosen.ok
                  THEN /\ contractAddress' = chosen.address
                       /\ deployedContract' = chosen.handle
                       /\ privateStateSet' = IF chosen.deployedNew THEN TRUE
                                             ELSE joined.set
                       /\ count' = loaded.count
                       /\ handleHistory' =
                            [NoHistory EXCEPT
                               !.via = IF chosen.deployedNew THEN "deploy" ELSE "join"]
                       /\ lastOp' = [seen EXCEPT
                                       !.contract = chosen.address,
                                       !.handle = chosen.handle,
                                       !.queried = loaded.queried,
                                       !.doc = loaded.doc]
                  ELSE /\ privateStateSet' = TRUE
                       /\ lastOp' = [seen EXCEPT !.ok = FALSE, !.site = "deploy",
                                                 !.error = chosen.error]
                       /\ UNCHANGED <<contractVars, count, handleHistory>>
             /\ isConnecting' = FALSE
             /\ UNCHANGED <<viteAddress, isLoading, inFlight>>

ConnectCompletes(fresh, response, stored) ==
  /\ ProviderFrame
  /\ ConnectProceeds(WalletStateOk, WalletStateOk, fresh, response, stored)

\* wallet.state() rejects, in connect itself or inside initializeProviders
WalletStateRejects(site, error, fresh, response) ==
  /\ ProviderFrame
  /\ ConnectProceeds(IF site = "connect" THEN WalletStateFails(error)
                     ELSE WalletStateOk,
                     IF site = "initializeProviders" THEN WalletStateFails(error)
                     ELSE WalletStateOk,
                     fresh, response, TRUE)

\* disconnect: the widget's button calls it when connected, and is disabled
\* only while connecting; a callTx that is waiting for its block goes on
\* with the handle and the bundle it was started with
disconnectKeepsContract ==
  /\ ProviderFrame
  /\ isConnected /\ ~isConnecting
  /\ isConnected' = FALSE /\ address' = "" /\ walletAPI' = FALSE
  /\ providers' = FALSE
  /\ count' = 0 /\ proofServerIsOnline' = FALSE
  /\ handshake' = "none"
  /\ inFlight' = IF inFlight = NoFlight THEN NoFlight
                 ELSE [inFlight EXCEPT !.stale = TRUE]
  /\ privateStateSet' = FALSE /\ handleHistory' = NoHistory
  /\ lastOp' = [Observed("disconnect") EXCEPT !.during = Overlapped]
  /\ UNCHANGED <<contractVars, isConnecting, isLoading, localStorage, viteAddress>>
disconnect ==
  /\ ProviderFrame
  /\ isConnected /\ ~isConnecting
  /\ isConnected' = FALSE /\ address' = "" /\ walletAPI' = FALSE
  /\ providers' = FALSE /\ contractAddress' = ""
  /\ deployedContract' = NoContract
  /\ count' = 0 /\ proofServerIsOnline' = FALSE
  /\ handshake' = "none"
  /\ inFlight' = IF inFlight = NoFlight THEN NoFlight
                 ELSE [inFlight EXCEPT !.stale = TRUE]
  /\ privateStateSet' = FALSE /\ handleHistory' = NoHistory
  /\ lastOp' = [Observed("disconnect") EXCEPT !.during = Overlapped]
  /\ UNCHANGED <<isConnecting, isLoading, localStorage, viteAddress>>

\* refresh = loadCount; the Counter's buttons are disabled while isLoading
refresh(response) ==
  LET loaded == loadCount(isConnected, providers, contractAddress, response,
                          localStorage, count)
  IN /\ ProviderFrame
     /\ ~isLoading
     /\ count' = loaded.count
     /\ lastOp' = [Observed("loadCount") EXCEPT
                     !.contract = contractAddress,
                     !.during = IF loaded.queried THEN Overlapped ELSE "none",
                     !.queried = loaded.queried, !.doc = loaded.doc]
     /\ UNCHANGED <<sessionVars, contractVars, isConnecting, isLoading,
                    localStorage, viteAddress, inFlight, handshake,
                    privateStateSet, handleHistory>>

\* the increment and decrement handlers up to the wait inside callTx:
\* the guards, setIsLoading(true), and the handle's read of the round
CallTxStarts(op, newValue) ==
  /\ ~isLoading
  /\ inFlight = NoFlight
  /\ IF ~isConnected \/ ~walletAPI \/ ~providers \/ contractAddress = ""
       THEN /\ lastOp' = [Observed(op) EXCEPT !.ok = FALSE]
            /\ UNCHANGED <<isLoading, inFlight>>
     ELSE IF deployedContract = NoContract
       THEN /\ lastOp' = [Observed(op) EXCEPT !.ok = FALSE]
            /\ UNCHANGED <<isLoading, inFlight>>
     ELSE /\ op = "increment" => handleHistory.increments < MaxCount
          /\ newValue <= MaxCount
          /\ isLoading' = TRUE
          /\ inFlight' = [op |-> op, handle |-> deployedContract,
                          address |-> contractAddress, newValue |-> newValue,
                          stale |-> FALSE]
          /\ UNCHANGED lastOp
  /\ UNCHANGED <<sessionVars, contractVars, isConnecting, count, localStorage,
                 viteAddress, handshake, privateStateSet, handleHistory>>

IncrementStarts(response) ==
  /\ ProviderFrame
  /\ CallTxStarts("increment",
                  incrementTx(response, localStorage, deployedContract.address))

DecrementStarts(response) ==
  /\ ProviderFrame
  /\ CallTxStarts("decrement",
                  decrementTx(response, localStorage, deployedContract.address))

\* the rest of the handler: the handle writes the round to its address and
\* sets the private state, loadCount, and setIsLoading(false) in finally;
\* when the write throws, the catch shows a toast
CallTxFinishes(responseAfter, stored) ==
  LET storage == [localStorage EXCEPT
                    ![inFlight.handle.address] = JSONStringify(inFlight.newValue)]
      loaded == loadCount(TRUE, TRUE, inFlight.address, responseAfter,
                          storage, count)
      current == ~inFlight.stale /\ deployedContract = inFlight.handle
      seen == [Observed(inFlight.op) EXCEPT
                 !.contract = inFlight.handle.address,
                 !.handle = inFlight.handle]
  IN /\ ProviderFrame
     /\ inFlight # NoFlight
     /\ IF stored
          THEN /\ localStorage' = storage
               /\ privateStateSet' = IF inFlight.stale THEN privateStateSet ELSE TRUE
               /\ count' = loaded.count
               /\ handleHistory' =
                    IF ~current THEN handleHistory
                    ELSE IF inFlight.op = "increment"
                      THEN [handleHistory EXCEPT !.increments = @ + 1]
                      ELSE [handleHistory EXCEPT !.others = TRUE]
               /\ lastOp' = [seen EXCEPT !.queried = loaded.queried,
                                         !.doc = loaded.doc]
          ELSE /\ lastOp' = [seen EXCEPT !.ok = FALSE, !.error = StorageError]
               /\ UNCHANGED <<localStorage, privateStateSet, count, handleHistory>>
     /\ isLoading' = FALSE
     /\ inFlight' = NoFlight
     /\ UNCHANGED <<sessionVars, contractVars, isConnecting, viteAddress, handshake>>

\* the deployContract handler; its loadCount still sees the contract address
\* of the render the handler came from
deployContract(fresh, response, stored) ==
  LET deployed == deployCounterContract(localStorage, fresh, stored)
      loaded == loadCount(isConnected, providers, contractAddress, response,
                          deployed.storage, count)
      seen == [Observed("deploy") EXCEPT !.during = Overlapped]
  IN /\ ProviderFrame
     /\ IF ~isConnected \/ ~providers
          THEN /\ lastOp' = [Observed("deploy") EXCEPT !.ok = FALSE]
               /\ UNCHANGED <<contractVars, count, localStorage, isLoading,
                              privateStateSet, handleHistory>>
          ELSE /\ IsFresh(fresh)
               /\ localStorage' = deployed.storage
               /\ privateStateSet' = TRUE
               /\ isLoading' = FALSE
               /\ IF deployed.ok
                    THEN /\ contractAddress' = fresh
                         /\ deployedContract' = deployed.handle
                         /\ count' = loaded.count
                         /\ handleHistory' = [NoHistory EXCEPT !.via = "deploy"]
                         /\ lastOp' = [seen EXCEPT
                                         !.contract = fresh,
                                         !.handle = deployed.handle,
                                         !.queried = loaded.queried,
                                         !.doc = loaded.doc]
                    ELSE /\ lastOp' = [seen EXCEPT !.ok = FALSE,
                                                   !.error = deployed.error]
                         /\ UNCHANGED <<contractVars, count, handleHistory>>
     /\ UNCHANGED <<sessionVars, isConnecting, viteAddress, inFlight, handshake>>

\* the joinContract handler
joinContract(input, response, responseAfter) ==
  LET contract == IF Trim(input) = "" THEN "contract_1" ELSE Trim(input)
      joined == joinExistingContract(response, localStorage, contract)
      loaded == loadCount(isConnected, providers, contractAddress,
                          responseAfter, localStorage, count)
      seen == [Observed("join") EXCEPT
                 !.contract = contract,
                 !.existed = localStorage[contract] # NoItem,
                 !.doc = joined.doc,
                 !.during = Overlapped,
                 !.privateBefore = PrivateStateGet("counterPrivateState"),
                 !.privateAfter = PrivateStateGet("counterPrivateState")]
  IN /\ ProviderFrame
     /\ IF ~isConnected \/ ~providers
          THEN /\ lastOp' = [Observed("join") EXCEPT !.ok = FALSE]
               /\ UNCHANGED <<contractVars, count, isLoading,
                              privateStateSet, handleHistory>>
        ELSE IF input = "" \/ Trim(input) = ""
          THEN /\ lastOp' = [Observed("join") EXCEPT !.ok = FALSE]
               /\ UNCHANGED <<contractVars, count, isLoading,
                              privateStateSet, handleHistory>>
        ELSE IF ~joined.ok
          THEN /\ lastOp' = [seen EXCEPT !.ok = FALSE, !.error = joined.error]
               /\ isLoading' = FALSE
               /\ UNCHANGED <<contractVars, count,
                              privateStateSet, handleHistory>>
        ELSE /\ contractAddress' = contract
             /\ deployedContract' = joined.handle
             /\ privateStateSet' = (privateStateSet \/ joined.set)
             /\ count' = loaded.count
             /\ isLoading' = FALSE
             /\ handleHistory' = [NoHistory EXCEPT !.via = "join"]
             /\ lastOp' = [seen EXCEPT !.handle = joined.handle]
     /\ UNCHANGED <<sessionVars, isConnecting, localStorage, viteAddress,
                    inFlight, handshake>>

NextProvider ==
  \/ ProviderConnectStarts
  \/ \E error \in ConnectRejections : ConnectToWalletRejects(error)
  \/ \E fresh \in Addresses, response \in IndexerResponses, stored \in BOOLEAN :
       ConnectCompletes(fresh, response, stored)
  \/ \E site \in {"connect", "initializeProviders"}, error \in WalletRejections,
        fresh \in Addresses, response \in IndexerResponses :
       WalletStateRejects(site, error, fresh, response)
  \/ disconnect
  \/ \E response \in IndexerResponses : refresh(response)
  \/ \E response \in IndexerResponses : IncrementStarts(response)
  \/ \E response \in IndexerResponses : DecrementStarts(response)
  \/ \E responseAfter \in IndexerResponses, stored \in BOOLEAN :
       CallTxFinishes(responseAfter, stored)
  \/ \E fresh \in Addresses, response \in IndexerResponses, stored \in BOOLEAN :
       deployContract(fresh, response, stored)
  \/ \E input \in JoinInputs, response, responseAfter \in IndexerResponses :
       joinContract(input, response, responseAfter)

\* what earlier sessions can have left in localStorage
StoredBefore ==
  {EmptyStorage} \cup
  {[EmptyStorage EXCEPT !["contract_1"] = JSONStringify(1)]}

\* VITE_CONTRACT_ADDRESS: unset, or the address of the earlier contract
ConfiguredAddresses == {"", "contract_1"}

InitProvider ==
  /\ InitOthers
  /\ \E envAddress \in ConfiguredAddresses, storage \in StoredBefore :
       ProviderLoaded(envAddress, storage)
  /\ viteEnv = NoViteEnv

SpecProvider == InitProvider /\ [][NextProvider]_vars

(***************************************************************************)
(* Claims about the provider component                                     *)
(***************************************************************************)
\* the last step was a query of the contract of the current handle, which
\* deploy created and on which only increment was called since
QueriedDeployedHandle ==
  /\ lastOp.op = "loadCount" /\ lastOp.queried
  /\ handleHistory.via = "deploy" /\ ~handleHistory.others
  /\ lastOp.contract = deployedContract.address

\* C12: after N successful increments on a handle created by deploy, a query
\* returns round N and loadCount shows N, whatever the indexer endpoint does.
C12_QueryReturnsIncrements ==
  QueriedDeployedHandle =>
    /\ RoundOrZero(lastOp.doc) = handleHistory.increments
    /\ count = handleHistory.increments

\* C13: a query right after a successful deploy returns a snapshot with
\* round 0, votesA 0, votesB 0 and no voted identities.
C13_FreshDeployIsEmpty ==
  (QueriedDeployedHandle /\ handleHistory.increments = 0) =>
    /\ lastOp.doc.hasData
    /\ lastOp.doc.round = 0
    /\ {"round", "votesA", "votesB", "votedIdentities"} \subseteq lastOp.doc.fields

\* C14: joinContract on an address where no contract exists fails with the
\* contract-not-found error and yields no handle, whatever the query
\* endpoint answers.
C14_JoinMissingFails ==
  (lastOp.op = "join" /\ lastOp.contract # "" /\ ~lastOp.existed) =>
    /\ ~lastOp.ok
    /\ lastOp.error = ContractNotFound(lastOp.contract)
    /\ lastOp.handle = NoContract

C19_StateFailureLeavesDisconnected ==
  (lastOp.op = "connect" /\ lastOp.site \in {"connect", "initializeProviders"}) =>
    /\ ~lastOp.ok
    /\ ~providers /\ ~walletAPI /\ ~isConnected
    /\ deployedContract = NoContract /\ contractAddress = ""

\* C19 witness: initializeProviders failed on wallet.state()
C19_Witness ==
  /\ lastOp.op = "connect" /\ lastOp.site = "initializeProviders"
  /\ ~lastOp.ok /\ ~isConnecting

\* C23: whenever isConnected is true, connectToWallet of the current connect
\* resolved, and walletAPI and providers are set.
C23_ConnectedAfterHandshake ==
  isConnected => /\ handshake = "resolved"
                 /\ walletAPI /\ providers

\* C23 witness: connected by a connect that followed a rejected one
C23_Witness ==
  /\ isConnected /\ handshake = "resolved"
  /\ lastOp.op = "connect" /\ lastOp.ok

\* C24: after disconnect isConnected is false, address, walletAPI, providers,
\* contractAddress and deployedContract are undefined, count is 0 and
\* proofServerIsOnline is false, whatever the state before.
C24_DisconnectClearsAll ==
  lastOp.op = "disconnect" =>
    /\ ~isConnected /\ address = "" /\ ~walletAPI /\ ~providers
    /\ contractAddress = "" /\ deployedContract = NoContract
    /\ count = 0 /\ ~proofServerIsOnline

\* C24 witness: disconnect acted while a contract with a stored round was
\* held and an increment was waiting for its block
C24_Witness ==
  /\ lastOp.op = "disconnect"
  /\ inFlight # NoFlight /\ inFlight.stale
  /\ localStorage[inFlight.handle.address] # NoItem

\* C25: at most one operation is in flight: connect, increment, decrement,
\* refresh, deployContract and joinContract never overlap, and disconnect
\* never runs while one of them is in flight.
C25_OneOperationAtATime ==
  lastOp.during = "none"

\* C26: a handle is bound to one address: an increment or decrement started
\* through it works on that address, and contractAddress is the address of
\* deployedContract whenever both are held.
C26_HandleBoundToAddress ==
  /\ (contractAddress # "" /\ deployedContract # NoContract) =>
       contractAddress = deployedContract.address
  /\ inFlight # NoFlight => inFlight.address = inFlight.handle.address
  /\ (lastOp.op \in {"increment", "decrement"} /\ lastOp.handle # NoContract) =>
       /\ lastOp.contract = lastOp.handle.address
       /\ lastOp.ok => localStorage[lastOp.handle.address] # NoItem

\* C26 witness: an increment went through the handle of a second contract
C26_Witness ==
  /\ lastOp.op = "increment" /\ lastOp.ok
  /\ lastOp.handle.address = "contract_2"
  /\ contractAddress = "contract_2" /\ deployedContract = lastOp.handle

\* C27: a deployContract or joinContract that fails yields no handle and
\* leaves contractAddress, deployedContract, count and the stored contract
\* states as they were; one that succeeds yields a handle bound to the
\* address that is now held.
C27_FailedDeployOrJoinChangesNothing ==
  [][lastOp'.op \in {"deploy", "join"} =>
       IF lastOp'.ok
         THEN /\ lastOp'.handle # NoContract
              /\ deployedContract' = lastOp'.handle
              /\ contractAddress' = lastOp'.handle.address
              /\ lastOp'.op = "deploy" =>
                   localStorage'[contractAddress'] = JSONStringify(0)
         ELSE /\ lastOp'.handle = NoContract
              /\ UNCHANGED <<contractAddress, deployedContract, count,
                             localStorage>>]_vars

\* C27 witness: a deploy failed while another contract was held
C27_Witness ==
  /\ lastOp.op = "deploy" /\ ~lastOp.ok /\ lastOp.error = StorageError
  /\ contractAddress # "" /\ deployedContract.address = contractAddress

C31_FailedConnectEndsDisconnected ==
  lastOp.op = "connect" =>
    /\ ~lastOp.ok =>
         /\ ~isConnected /\ ~walletAPI /\ ~providers
         /\ contractAddress = "" /\ deployedContract = NoContract
    /\ isConnected => deployedContract # NoContract

\* C32: when connect, deployContract or joinContract succeeded, the
\* displayed count is the round stored for the contract that is now bound
\* as contractAddress.
C32_CountShowsBoundContract ==
  (lastOp.op \in {"connect", "deploy", "join"} /\ lastOp.ok
     /\ contractAddress # "") =>
    count = RoundOrZero(JSONParse(localStorage[contractAddress]))

\* C36: the busy flags are cleared when their handler ends: isConnecting is
\* true only while a connect awaits its handshake, whichever way the
\* connect ends, and isLoading is true only while an increment or decrement
\* that set it awaits its transaction, whichever way that ends.
C36_BusyFlagsCleared ==
  /\ isConnecting <=> handshake = "pending"
  /\ isLoading => inFlight # NoFlight

\* C36 witness: an increment failed on its write; neither flag is left set
C36_Witness ==
  /\ lastOp.op = "increment" /\ ~lastOp.ok /\ lastOp.error = StorageError
  /\ inFlight = NoFlight /\ ~isLoading /\ ~isConnecting

\* C33: from disconnect until the next connect starts the provider stays
\* cleared (not connected, no contract address, no handle, count 0), also
\* when an operation that began before the disconnect completes after it.
C33_StaysClearedAfterDisconnect ==
  handshake = "none" =>
    /\ ~isConnected
    /\ contractAddress = "" /\ deployedContract = NoContract
    /\ count = 0

(***************************************************************************)
(* run(config, logger, dockerEnv): acquire the readline interface, the     *)
(* container environment and the wallet, configure the providers, run      *)
(* mainLoop, catch, and tear down in the finally cascade.  mainLoop is     *)
(* taken by its ways of ending: it returns after Exit, it returns because  *)
(* deployOrJoin gave no contract, or deployOrJoin throws.                  *)
(***************************************************************************)
RunFrame == UNCHANGED <<hsVars, ledgerVars, callVars, cliVars, providerVars, txVars,
                        configVars, handleVars>>

\* buildWallet and configureProviders are handed the config
ReadBy(reader) ==
  [readers |-> Append(configRead.readers, reader),
   first |-> IF configRead.readers = <<>> THEN endpoints ELSE configRead.first,
   last |-> endpoints]

\* a failure before the try block: run() rejects and nothing is torn down
RunRejectsEarly(error, how) ==
  /\ runPc' = "done" /\ outcome' = "rejected" /\ pending' = error
  /\ ending' = how
  /\ UNCHANGED <<runConfig, acquired, attempted, teardownErrors, teardownAt,
                 endpoints, rewrites>>

\* the try block ended: normally, or by a throw that went through the catch
RunEntersFinally(error, how) ==
  /\ runPc' = "teardown" /\ pending' = error /\ ending' = how
  /\ UNCHANGED <<runConfig, acquired, attempted, teardownErrors, teardownAt,
                 outcome, endpoints, rewrites>>

\* createInterface
RunStarts(config) ==
  /\ RunFrame
  /\ runPc = "start"
  /\ runConfig' = config
  /\ acquired' = <<"rli">>
  /\ runPc' = IF config.docker THEN "envUp" ELSE "buildWallet"
  /\ UNCHANGED <<attempted, teardownErrors, teardownAt, pending, outcome, ending,
                 endpoints, rewrites, configRead>>

\* env = await dockerEnv.up(), then the port remapping
EnvUpResolves(ports) ==
  LET remapped == RemapPorts(runConfig, endpoints, ports)
  IN /\ RunFrame
     /\ runPc = "envUp"
     /\ acquired' = Append(acquired, "env")
     /\ endpoints' = remapped.endpoints
     /\ rewrites' = IF remapped.rewritten THEN rewrites + 1 ELSE rewrites
     /\ runPc' = "buildWallet"
     /\ UNCHANGED <<runConfig, attempted, teardownErrors, teardownAt, pending,
                    outcome, ending, configRead>>

EnvUpThrows(error) ==
  /\ RunFrame
  /\ runPc = "envUp"
  /\ RunRejectsEarly(error, "envUpFailed")
  /\ UNCHANGED configRead

\* wallet = await buildWallet(config, rli)
BuildWalletResolves ==
  /\ RunFrame
  /\ runPc = "buildWallet"
  /\ acquired' = Append(acquired, "wallet")
  /\ configRead' = ReadBy("buildWallet")
  /\ runPc' = "configureProviders"
  /\ UNCHANGED <<runConfig, attempted, teardownErrors, teardownAt, pending,
                 outcome, ending, endpoints, rewrites>>

\* the wallet menu's Exit gives null; a StandaloneConfig has no menu
BuildWalletReturnsNull ==
  /\ RunFrame
  /\ runPc = "buildWallet"
  /\ ~runConfig.standalone
  /\ RunEntersFinally(NoError, "walletMenuExit")
  /\ configRead' = ReadBy("buildWallet")

BuildWalletThrows(error) ==
  /\ RunFrame
  /\ runPc = "buildWallet"
  /\ RunRejectsEarly(error, "buildWalletFailed")
  /\ configRead' = ReadBy("buildWallet")

\* providers = await api.configureProviders(wallet, config)
ConfigureProvidersResolves ==
  /\ RunFrame
  /\ runPc = "configureProviders"
  /\ runPc' = "mainLoop"
  /\ configRead' = ReadBy("configureProviders")
  /\ UNCHANGED <<runConfig, acquired, attempted, teardownErrors, teardownAt,
                 pending, outcome, ending, endpoints, rewrites>>

ConfigureProvidersThrows(error) ==
  /\ RunFrame
  /\ runPc = "configureProviders"
  /\ RunEntersFinally(RunCatch(error), "configureProvidersFailed")
  /\ configRead' = ReadBy("configureProviders")

\* await mainLoop(providers, rli)
MainLoopReturns(how) ==
  /\ RunFrame
  /\ runPc = "mainLoop"
  /\ RunEntersFinally(NoError, how)
  /\ UNCHANGED configRead

MainLoopThrows(error) ==
  /\ RunFrame
  /\ runPc = "mainLoop"
  /\ RunEntersFinally(RunCatch(error), "deployOrJoinFailed")
  /\ UNCHANGED configRead

\* whether a step of the cascade has something to release
Releases(step) ==
  \E i \in 1..Len(acquired) : acquired[i] = step

\* one step of the cascade: rli.close() and removeAllListeners, wallet.close()
\* if a wallet was built, env.down() if an environment was started
TeardownStep(threw) ==
  LET step == TeardownOrder[teardownAt]
  IN /\ RunFrame
     /\ runPc = "teardown"
     /\ teardownAt <= Len(TeardownOrder)
     /\ IF Releases(step)
          THEN /\ attempted' = Append(attempted, step)
               /\ teardownErrors' = IF threw THEN Append(teardownErrors, step)
                                    ELSE teardownErrors
               /\ teardownAt' = NextTeardown(teardownAt, threw)
          ELSE /\ ~threw
               /\ teardownAt' = teardownAt + 1
               /\ UNCHANGED <<attempted, teardownErrors>>
     /\ UNCHANGED <<runPc, runConfig, acquired, pending, outcome, ending,
                    endpoints, rewrites, configRead>>

\* the finally block is through: run() rejects with what the catch rethrew,
\* or resolves
RunSettles ==
  /\ RunFrame
  /\ runPc = "teardown"
  /\ teardownAt > Len(TeardownOrder)
  /\ runPc' = "done"
  /\ outcome' = IF pending = NoError THEN "resolved" ELSE "rejected"
  /\ UNCHANGED <<runConfig, acquired, attempted, teardownErrors, teardownAt,
                 pending, ending, endpoints, rewrites, configRead>>

NextRun ==
  \/ \E config \in RunConfigs : RunStarts(config)
  \/ \E ports \in ContainerPorts : EnvUpResolves(ports)
  \/ \E error \in OperationFailures : EnvUpThrows(error)
  \/ BuildWalletResolves
  \/ BuildWalletReturnsNull
  \/ \E error \in OperationFailures : BuildWalletThrows(error)
  \/ ConfigureProvidersResolves
  \/ \E error \in OperationFailures : ConfigureProvidersThrows(error)
  \/ \E how \in {"exit", "noContract"} : MainLoopReturns(how)
  \/ \E error \in OperationFailures : MainLoopThrows(error)
  \/ \E threw \in BOOLEAN : TeardownStep(threw)
  \/ RunSettles

SpecRun == Init /\ [][NextRun]_vars

(***************************************************************************)
(* Claims about run()                                                      *)
(***************************************************************************)
\* run() is over and went through its finally block
TornDown ==
  runPc = "done" /\ ending \notin {"envUpFailed", "buildWalletFailed"}

Elements(seq) == {seq[i] : i \in 1..Len(seq)}

Reverse(seq) == [i \in 1..Len(seq) |-> seq[Len(seq) + 1 - i]]

\* C16: every teardown step whose resource was acquired is attempted, also
\* after an earlier step threw, and no exception of a teardown step leaves
\* run(): run() rejects only with what its catch rethrew.
C16_EveryTeardownStepAttempted ==
  /\ TornDown =>
       /\ Elements(attempted) = Elements(acquired)
       /\ Len(attempted) = Len(acquired)
       /\ Elements(teardownErrors) \subseteq Elements(attempted)
       /\ outcome = "rejected" =>
            /\ ending \in {"configureProvidersFailed", "deployOrJoinFailed"}
            /\ pending \in OperationFailures /\ ~pending.isError
       /\ ending \in {"exit", "noContract", "walletMenuExit"} =>
            outcome = "resolved"
  /\ runPc = "teardown" => outcome = "running"

\* C16 witness: the first step threw, all three steps were attempted and
\* run() resolved
C16_Witness ==
  /\ TornDown /\ outcome = "resolved"
  /\ Len(teardownErrors) >= 1 /\ teardownErrors[1] = "rli"
  /\ Len(attempted) = 3

\* C17: resources are released in the reverse of the order of acquisition
\* (readline, environment, wallet): wallet, then environment, then readline.
C17_ReverseAcquisitionOrder ==
  TornDown => attempted = Reverse(acquired)

\* C17 as the code has it: the readline interface is closed first, then the
\* wallet, then the container environment; the wallet goes before the
\* environment, the reverse of their acquisition, but the readline interface,
\* acquired first, is also released first.
C17_TeardownOrder ==
  TornDown => attempted = SelectSeq(<<"rli", "wallet", "env">>, Releases)

\* C17 witness: all three resources were acquired and released
C17_Witness ==
  /\ TornDown
  /\ acquired = <<"rli", "env", "wallet">>
  /\ attempted = <<"rli", "wallet", "env">>

\* C20: run() ends with success only after an explicit Exit; a startup
\* failure (wallet build, provider configuration, deploy or join) ends it
\* with a failure the caller sees.
C20_SuccessOnlyOnGracefulExit ==
  runPc = "done" =>
    /\ outcome = "resolved" => ending \in {"exit", "noContract", "walletMenuExit"}
    /\ ending \in {"buildWalletFailed", "configureProvidersFailed",
                   "deployOrJoinFailed"} => outcome = "rejected"

\* C35: on every exit path of run(), every resource that was acquired
\* (readline interface, container environment, wallet) is released before
\* run() finishes.
C35_EveryAcquiredResourceReleased ==
  runPc = "done" => Elements(acquired) \subseteq Elements(attempted)

\* C21: the endpoints are rewritten at most once per run and before first
\* use: only after a container environment was started for a
\* StandaloneConfig, before buildWallet and configureProviders are handed
\* the config, and never afterwards.
C21_EndpointsRewrittenOnceBeforeUse ==
  /\ rewrites <= 1
  /\ rewrites = 1 => runConfig.docker /\ runConfig.standalone /\ Releases("env")
  /\ rewrites = 0 => endpoints = ConfigEndpoints
  /\ (Releases("env") /\ runConfig.standalone) => rewrites = 1
  /\ configRead.readers # <<>> =>
       /\ configRead.first = endpoints
       /\ configRead.last = endpoints
       /\ configRead.readers[1] = "buildWallet"

\* C21 witness: a run with remapped endpoints read the config twice and ended
C21_Witness ==
  /\ runPc = "done" /\ rewrites = 1
  /\ configRead.readers = <<"buildWallet", "configureProviders">>
  /\ endpoints # ConfigEndpoints

(***************************************************************************)
(* Endpoint resolution as a function: mapContainerPort on the URLs of the  *)
(* configurations, getConfig on the variables of the build.                *)
(***************************************************************************)
ConfigFrame == UNCHANGED <<hsVars, ledgerVars, callVars, cliVars, providerVars,
                           txVars, runVars, handleVars>>

ResolveMapContainerPort(url, port) ==
  /\ ConfigFrame
  /\ resolved' = [NotResolved EXCEPT !.op = "mapContainerPort", !.url = url,
                                     !.port = port,
                                     !.mapped = mapContainerPort(url, port)]
  /\ UNCHANGED viteEnv

ResolveGetConfig ==
  /\ ConfigFrame
  /\ resolved' = [NotResolved EXCEPT !.op = "getConfig",
                                     !.config = getConfig(viteEnv)]
  /\ UNCHANGED viteEnv

NextConfig ==
  \/ \E url \in EndpointURLs, port \in MappedPorts :
       ResolveMapContainerPort(url, port)
  \/ ResolveGetConfig

InitConfig ==
  /\ InitOthers
  /\ ProviderLoaded("", EmptyStorage)
  /\ viteEnv \in ViteEnvs

SpecConfig == InitConfig /\ [][NextConfig]_vars

EffectivePort(parsed) ==
  IF parsed.port = "" THEN DefaultPort(parsed.scheme) ELSE parsed.port

\* what mapContainerPort returned has the scheme, host and path of its
\* argument, the mapped port, and no trailing slash
MappedEndpointClean ==
  resolved.op = "mapContainerPort" =>
    LET given == ParseURL(resolved.url)
        mapped == ParseURL(resolved.mapped)
    IN /\ mapped.scheme = given.scheme
       /\ mapped.host = given.host
       /\ StripTrailingSlashes(mapped.path) = StripTrailingSlashes(given.path)
       /\ EffectivePort(mapped) = NatToString(resolved.port)
       /\ ~HasTrailingSlash(resolved.mapped)

AppConfigFields == {"nodeUrl", "indexerUrl", "proofServerUrl", "networkId"}

\* C22: mapContainerPort keeps scheme, host and path, sets the mapped port
\* and leaves no trailing slash; and no endpoint resolved by mapContainerPort
\* or getConfig has a trailing slash or an unset field.
C22_ResolvedEndpointsClean ==
  /\ MappedEndpointClean
  /\ resolved.op = "getConfig" =>
       \A field \in AppConfigFields :
         /\ resolved.config[field] # ""
         /\ ~HasTrailingSlash(resolved.config[field])

(***************************************************************************)
(* walletProvider.balanceTx and walletProvider.submitTx, called by the     *)
(* users of the provider bundle, which the context hands out.              *)
(***************************************************************************)
TxFrame == UNCHANGED <<hsVars, ledgerVars, callVars, cliVars, providerVars, runVars,
                       configVars, handleVars>>

\* the transactions a caller holds: its own, and what balanceTx returned
Held ==
  {Raw(id) : id \in TxIds} \cup
  {txCalls[id].value : id \in {i \in TxIds : txCalls[i].step = Len(balanceTx) + 1}}

InFlight(id) ==
  txCalls[id].step \in 1..Len(balanceTx) /\ ~txCalls[id].rejected

\* balanceTx(tx): the first wallet method is called with tx
BalanceTxCalled(id) ==
  /\ TxFrame
  /\ txCalls[id].step = 0
  /\ txCalls' = [txCalls EXCEPT ![id].step = 1]
  /\ lastWalletCall' = [method |-> balanceTx[1], arg |-> Raw(id),
                        during |-> FALSE]
  /\ UNCHANGED submittedTxs

\* the awaited wallet method resolves: the next one is called with its
\* result, or balanceTx returns the result of the last one
WalletResolves(id) ==
  LET at == txCalls[id].step
      result == WalletMethod(balanceTx[at], txCalls[id].value)
  IN /\ TxFrame
     /\ InFlight(id)
     /\ txCalls' = [txCalls EXCEPT ![id].step = at + 1, ![id].value = result]
     /\ lastWalletCall' =
          IF at < Len(balanceTx)
            THEN [method |-> balanceTx[at + 1], arg |-> result, during |-> FALSE]
            ELSE lastWalletCall
     /\ UNCHANGED submittedTxs

\* the awaited wallet method rejects: balanceTx rejects, nothing more is called
WalletRejects(id) ==
  /\ TxFrame
  /\ InFlight(id)
  /\ txCalls' = [txCalls EXCEPT ![id].rejected = TRUE]
  /\ UNCHANGED <<submittedTxs, lastWalletCall>>

\* submitTx(tx): tx goes to wallet.submitTransaction as it is; the caller
\* passes its own transaction or what balanceTx returned for it
SubmitTxCalled(id, own) ==
  LET tx == IF own THEN Raw(id) ELSE txCalls[id].value
  IN /\ TxFrame
     /\ tx \in Held
     /\ lastWalletCall' = [method |-> submitTx, arg |-> tx,
                           during |-> InFlight(id)]
     /\ submittedTxs' = submittedTxs \cup {tx}
     /\ UNCHANGED txCalls

NextTx ==
  \/ \E id \in TxIds : BalanceTxCalled(id)
  \/ \E id \in TxIds : WalletResolves(id)
  \/ \E id \in TxIds : WalletRejects(id)
  \/ \E id \in TxIds, own \in BOOLEAN : SubmitTxCalled(id, own)

SpecTx == Init /\ [][NextTx]_vars

\* C18: balance, then prove, then submit: proveTransaction is called only
\* with the output of balanceTransaction, submitTransaction only with a
\* balanced and proved transaction, and no two of the steps run at once for
\* one transaction.
C18_BalanceProveSubmitInOrder ==
  /\ lastWalletCall.method = "proveTransaction" =>
       lastWalletCall.arg = balanceTransaction(Raw(lastWalletCall.arg.id))
  /\ lastWalletCall.method = "submitTransaction" =>
       /\ lastWalletCall.arg.balanced /\ lastWalletCall.arg.proved
       /\ ~lastWalletCall.during
  /\ \A tx \in submittedTxs : tx.balanced /\ tx.proved

\* C18 as the code has it: balanceTx calls balanceTransaction with its
\* argument and then, once that resolved, proveTransaction with the result,
\* and returns the balanced and proved transaction; submitTx passes on the
\* transaction it is given, so submitTransaction sees a balanced and proved
\* transaction exactly when the caller submits what balanceTx returned.
C18_BalanceThenProve ==
  /\ lastWalletCall.method = "balanceTransaction" =>
       lastWalletCall.arg = Raw(lastWalletCall.arg.id)
  /\ lastWalletCall.method = "proveTransaction" =>
       lastWalletCall.arg = balanceTransaction(Raw(lastWalletCall.arg.id))
  /\ \A id \in TxIds :
       /\ txCalls[id].step = 2 => txCalls[id].value = balanceTransaction(Raw(id))
       /\ txCalls[id].step = 3 =>
            txCalls[id].value = proveTransaction(balanceTransaction(Raw(id)))
  /\ \A tx \in submittedTxs :
       (tx.balanced /\ tx.proved) <=> tx # Raw(tx.id)

\* C18 witness: a transaction went through balanceTx and was then submitted
C18_Witness ==
  \E id \in TxIds :
    /\ txCalls[id].step = 3
    /\ txCalls[id].value \in submittedTxs
    /\ lastWalletCall.method = "submitTransaction"
    /\ lastWalletCall.arg = txCalls[id].value

(***************************************************************************)
(* callTx of the contract handles: increment and decrement query the       *)
(* round, compute the new one, wait 2000 ms for the block, and then write  *)
(* the new round to localStorage.  Handles of the same address share the   *)
(* item they write.                                                        *)
(***************************************************************************)
HandleFrame == UNCHANGED <<hsVars, ledgerVars, callVars, cliVars, providerVars,
                           txVars, runVars, configVars>>

StoredRound == RoundOrZero(JSONParse(shared[SharedContract]))

\* a handle is waiting for its block
Busy(caller) == waiting[caller] # NotWaiting

\* up to the wait: the query through the public data provider and the new
\* round
CallTxReads(caller, op, response, newValue) ==
  /\ ~Busy(caller)
  /\ txHistory.started < MaxCalls
  /\ waiting' = [c \in Callers |->
                   IF c = caller
                     THEN [op |-> op, newValue |-> newValue,
                           fallback |-> response = FetchRejects,
                           overlapped |-> \E other \in Callers : Busy(other)]
                   ELSE IF Busy(c) THEN [waiting[c] EXCEPT !.overlapped = TRUE]
                   ELSE waiting[c]]
  /\ txHistory' = [txHistory EXCEPT
                     !.started = @ + 1,
                     !.fallback = @ /\ response = FetchRejects]
  /\ UNCHANGED <<shared, lastTx>>

CallTxIncrementReads(caller, response) ==
  /\ HandleFrame
  /\ CallTxReads(caller, "increment", response,
                 incrementTx(response, shared, SharedContract))

CallTxDecrementReads(caller, response) ==
  /\ HandleFrame
  /\ CallTxReads(caller, "decrement", response,
                 decrementTx(response, shared, SharedContract))

\* after the wait: localStorage.setItem of the new round
CallTxWrites(caller) ==
  /\ HandleFrame
  /\ Busy(caller)
  /\ shared' = [shared EXCEPT
                  ![SharedContract] = JSONStringify(waiting[caller].newValue)]
  /\ lastTx' = [op |-> waiting[caller].op, caller |-> caller,
                before |-> StoredRound, after |-> waiting[caller].newValue,
                fallback |-> waiting[caller].fallback,
                overlapped |-> waiting[caller].overlapped]
  /\ txHistory' = IF waiting[caller].op = "increment"
                    THEN [txHistory EXCEPT !.increments = @ + 1]
                    ELSE [txHistory EXCEPT !.decrements = @ + 1]
  /\ waiting' = [waiting EXCEPT ![caller] = NotWaiting]

NextHandles ==
  \/ \E caller \in Callers, response \in IndexerResponses :
       CallTxIncrementReads(caller, response)
  \/ \E caller \in Callers, response \in IndexerResponses :
       CallTxDecrementReads(caller, response)
  \/ \E caller \in Callers : CallTxWrites(caller)

SpecHandles == Init /\ [][NextHandles]_vars

\* C34: increments on one address whose executions overlap all take effect:
\* when k increments have completed, none is waiting, and every query was
\* answered from the stored state, the stored round is k higher than before.
C34_NoIncrementLost ==
  (/\ \A caller \in Callers : ~Busy(caller)
   /\ txHistory.decrements = 0
   /\ txHistory.fallback) =>
    StoredRound = txHistory.increments

\* C38: the stored round is never negative; a decrement that did not
\* overlap another call leaves a round of 0 at 0 and lowers any other round
\* by exactly 1.
C38_DecrementLowersByOne ==
  /\ StoredRound >= 0
  /\ (lastTx.op = "decrement" /\ ~lastTx.overlapped) =>
       lastTx.after = IF lastTx.before = 0 THEN 0 ELSE lastTx.before - 1

====
